---- MODULE Spec2Model ----
(***************************************************************************)
(* The big-wins notification pipeline of achievements-api: the cursor     *)
(* store in Redis (lib/state/cursor.ts), the paginated fetch of the       *)
(* upstream events feed (lib/hov/fetch-wins.ts), the Discord webhook      *)
(* publisher (lib/discord/webhook.ts), the poll cycle that ties them      *)
(* together (GET of the big-wins route) and the two handlers that write   *)
(* the cursor directly (POST cursor, GET debug/redis).                    *)
(***************************************************************************)
EXTENDS Integers, Sequences, FiniteSets, TLC

(***************************************************************************)
(* Bounds of the model.                                                    *)
(***************************************************************************)
\* The upstream feed holds at most this many events.
MaxFeed == 3
\* At most this many injected failures and direct cursor writes per behaviour.
MaxFaults == 1
\* The upstream answers a page request with at most this many rows and
\* echoes that number as params.limit.
ServerMaxLimit == 2
\* Largest explicit MAX_POSTS_PER_RUN and BATCH_LINES_PER_MESSAGE tried.
MaxCap == 1
MaxBatch == 1

\* Positions of the events the feed may hold: two rounds, two events each.
Rounds == 100..101
Intras == 0..1

(***************************************************************************)
(* Program constants.                                                      *)
(***************************************************************************)
pageSize == 100
hardLimit == 2000
DefaultMaxPostsPerRun == 20
DefaultLinesPerMessage == 5
MaxContent == 1900

\* The invocations of the poll handler: two, for the cycles that overlap;
\* where the handler is invoked one at a time, the first.
Invocations == {1, 2}
Procs == {1}

None == <<>>
Some(x) == <<x>>

Min(a, b) == IF a < b THEN a ELSE b
Max(a, b) == IF a > b THEN a ELSE b

(***************************************************************************)
(* Numbers that may be NaN: what Number() makes of a text of the           *)
(* environment or of a request. NaN is a value apart from the integers in  *)
(* use; a comparison with it is false and a sum with it is NaN.            *)
(***************************************************************************)
NaN == -1000
lt(a, b) == a # NaN /\ b # NaN /\ a < b
gt(a, b) == lt(b, a)
ge(a, b) == a # NaN /\ b # NaN /\ a >= b
eq(a, b) == a # NaN /\ b # NaN /\ a = b
plus(a, b) == IF a = NaN \/ b = NaN THEN NaN ELSE a + b
\* Math.max(a, b).
max(a, b) == IF a = NaN \/ b = NaN THEN NaN ELSE Max(a, b)

\* The index and the chunk size of postDiscordLines are numbers with at
\* most one binary digit after the point (1.5 lines per message): such a
\* number x is held as the integer 2x, NaN as NaN.
Whole(n) == IF n = NaN THEN NaN ELSE 2 * n
\* The integer slice() makes of an index: truncated, and 0 for NaN.
trunc(x) == IF x = NaN THEN 0 ELSE x \div 2

\* The events of the upstream, known by their position: those without a
\* replayUrl, those of a later round that carry one, and both.
HoVEvent == [round : Rounds, intra : Intras]
Linked == [round : {102}, intra : Intras]
Upstream == HoVEvent \cup Linked
Ev(r, i) == [round |-> r, intra |-> i]

\* MAX_POSTS_PER_RUN values of the environment, the default included.
CapChoices == (-1..MaxCap) \cup {DefaultMaxPostsPerRun}
\* Number(BATCH_LINES_PER_MESSAGE ?? "5"): the default, the whole numbers
\* 0..MaxBatch, 1.5, and NaN for a text that is no number.
BatchChoices ==
    {NaN, Whole(1) + 1, Whole(DefaultLinesPerMessage)} \cup {Whole(n) : n \in 0..MaxBatch}

(***************************************************************************)
(* String(n) of an integer or NaN and Number(s), a string being the        *)
(* sequence of its characters: a digit is the number it stands for, and    *)
(* the other characters in use are the minus sign and the letters of       *)
(* "NaN".                                                                  *)
(***************************************************************************)
Minus == 10
NaNString == <<11, 12, 11>>
IsDigits(s) == s # <<>> /\ \A k \in 1..Len(s) : s[k] \in 0..9

RECURSIVE Digits(_)
Digits(n) == IF n < 10 THEN <<n>> ELSE Append(Digits(n \div 10), n % 10)

RECURSIVE ValueOf(_)
ValueOf(s) == IF s = <<>> THEN 0 ELSE 10 * ValueOf(SubSeq(s, 1, Len(s) - 1)) + s[Len(s)]

String(n) ==
    IF n = NaN THEN NaNString
    ELSE IF n < 0 THEN <<Minus>> \o Digits(-n)
    ELSE Digits(n)

Number(s) ==
    IF s = <<>> THEN 0
    ELSE IF IsDigits(s) THEN ValueOf(s)
    ELSE IF s[1] = Minus /\ IsDigits(Tail(s)) THEN -ValueOf(Tail(s))
    ELSE NaN

ROUND_KEY == "hov:bigwins:lastRound"
INTRA_KEY == "hov:bigwins:lastIntra"

\* Array.prototype.slice(0, end) for an integer end.
Slice0(s, end) ==
    LET k == IF end < 0 THEN Max(Len(s) + end, 0) ELSE Min(end, Len(s))
    IN  SubSeq(s, 1, k)

\* Array.prototype.slice(start, end) for 0 <= start <= end.
Slice(s, start, end) == SubSeq(s, start + 1, Min(end, Len(s)))

VARIABLES
    kv,         \* Redis: key -> None or Some(decimal string)
    feed,       \* the upstream events, in the order the API lists them
    delivered,  \* the sink: how many times each event's line was accepted
    cyc,        \* per invocation of the poll handler: its locals
    faults,     \* failures injected and direct cursor writes so far
    fetchRun,   \* a call of fetchAllEventsSince on its own: its locals
    lastFail,   \* the last ended invocation, when its publish failed
    claimRun,   \* a request POST /api/claim: its locals and its calls
    pool,       \* a call of promisePool: its locals and its workers
    listRun,    \* a request GET /api/achievements: its locals
    metricRun,  \* a poll cycle seen through the metric of its events
    publishRun, \* a call of postDiscordLines seen through the length of its lines
    debugRun    \* a request GET debug/redis: its locals

\* The poll pipeline's state, and the state of the other handlers.
pollVars == <<kv, feed, delivered, cyc, faults, fetchRun, lastFail>>
apiVars == <<claimRun, pool, listRun, metricRun, publishRun, debugRun>>

vars == <<kv, feed, delivered, cyc, faults, fetchRun, lastFail, claimRun, pool,
         listRun, metricRun, publishRun, debugRun>>

EmptyDebug ==
    [cursorBefore |-> None, apiCount |-> None, newerCount |-> None,
     toPostCount |-> None, discordPosted |-> None, cursorAdvancedTo |-> None,
     note |-> None, error |-> None]

IdleCyc ==
    [pc |-> "idle", maxPostsPerRun |-> 0, maxPostsNaN |-> FALSE,
     lastRound |-> 0, lastIntra |-> 0,
     events |-> <<>>, offset |-> 0, maxRound |-> 0, maxIntra |-> 0,
     lines |-> <<>>, chunkSize |-> 0, i |-> 0,
     posts |-> <<>>, sleeps |-> <<>>, setCalls |-> <<>>, dryRun |-> FALSE,
     debug |-> EmptyDebug, status |-> 0]

\* fetchAllEventsSince not called.
IdleFetch ==
    [pc |-> "idle", hardLimit |-> 0, len |-> 0, offset |-> 0, requests |-> 0,
     lastLen |-> 0, nonIncreasing |-> TRUE, rows |-> 0]

\* No request to the other handlers.
IdleClaim == [pc |-> "idle"]
IdlePool == [pc |-> "idle"]
IdleList == [pc |-> "idle"]
IdleMetric == [pc |-> "idle"]
IdlePublish == [pc |-> "idle"]
IdleDebug == [pc |-> "idle", before |-> None, after |-> None]

ApiIdle ==
    /\ debugRun = IdleDebug
    /\ claimRun = IdleClaim
    /\ pool = IdlePool
    /\ listRun = IdleList
    /\ metricRun = IdleMetric
    /\ publishRun = IdlePublish

Init ==
    /\ kv = [k \in {ROUND_KEY, INTRA_KEY} |-> None]
    /\ feed = <<>>
    /\ delivered = [e \in Upstream |-> 0]
    /\ cyc = [p \in Invocations |-> IdleCyc]
    /\ faults = 0
    /\ fetchRun = IdleFetch
    /\ lastFail = None
    /\ ApiIdle

(***************************************************************************)
(* lib/state/cursor.ts                                                     *)
(***************************************************************************)
\* redis.mget(ROUND_KEY, INTRA_KEY) and Number(str ?? 0): one read of both keys.
getCursor(store) ==
    [round |-> IF store[ROUND_KEY] = None THEN 0 ELSE Number(store[ROUND_KEY][1]),
     intra |-> IF store[INTRA_KEY] = None THEN 0 ELSE Number(store[INTRA_KEY][1])]

\* A variant that writes the two keys with two commands, seen between them.
setCursorRoundFirst(store, round, intra) ==
    [store EXCEPT ![ROUND_KEY] = Some(String(round))]

\* redis.mset of both keys, as strings: one write.
setCursor(store, round, intra) ==
    [store EXCEPT ![ROUND_KEY] = Some(String(round)), ![INTRA_KEY] = Some(String(intra))]

(***************************************************************************)
(* lib/hov/fetch-wins.ts                                                   *)
(***************************************************************************)
\* The upstream's answer to fetchEventsPage(baseUrl, roundGte, offset, limit):
\* the rows offset.. of the events with round >= roundGte, and the limit it
\* applied, echoed in params.
fetchEventsPage(rows, roundGte, offset, limit) ==
    LET matching == SelectSeq(rows, LAMBDA e : ge(e.round, roundGte))
        applied  == Min(limit, ServerMaxLimit)
    IN  [data   |-> SubSeq(matching, offset + 1, Min(offset + applied, Len(matching))),
         params |-> [roundGte |-> roundGte, limit |-> applied, offset |-> offset]]

\* The running maximum of fetchAllEventsSince over one page.
RECURSIVE trackMax(_, _, _)
trackMax(data, maxRound, maxIntra) ==
    IF data = <<>> THEN [maxRound |-> maxRound, maxIntra |-> maxIntra]
    ELSE LET e == Head(data)
         IN  IF gt(e.round, maxRound) \/ (eq(e.round, maxRound) /\ gt(e.intra, maxIntra))
             THEN trackMax(Tail(data), e.round, e.intra)
             ELSE trackMax(Tail(data), maxRound, maxIntra)

seedMaxZero(roundGte) == [maxRound |-> 0, maxIntra |-> 0]

\* The seed of the running maximum: the round asked for, and intra 0.
seedMax(roundGte) == [maxRound |-> roundGte, maxIntra |-> 0]

\* One turn of the loop of fetchAllEventsSince after its page request: from
\* the length of events before the page, the offset asked for, the number of
\* rows of the page and the limit it echoes, the length of events and the
\* offset after the turn, and whether the loop takes another turn.
fetchNext(eventsLen, offset, dataLen, limit, hardLim) ==
    IF dataLen = 0
    THEN [more |-> FALSE, len |-> eventsLen, offset |-> offset]
    ELSE IF dataLen < limit
    THEN [more |-> FALSE, len |-> eventsLen + dataLen, offset |-> offset]
    ELSE [more |-> eventsLen + dataLen < hardLim, len |-> eventsLen + dataLen,
          offset |-> offset + limit]

(***************************************************************************)
(* The poll cycle: GET of the big-wins route.                              *)
(***************************************************************************)
\* A variant of step 4 that also keeps the event at the cursor.
newerNonStrict(events, lastRound, lastIntra) ==
    SelectSeq(events, LAMBDA e :
        e.round > lastRound \/ (e.round = lastRound /\ e.intra >= lastIntra))

\* A variant of step 4 that takes the first row of the answer for the
\* event at the cursor and skips it.
newerSkipsFirst(events, lastRound, lastIntra) ==
    IF events = <<>> THEN <<>>
    ELSE SelectSeq(Tail(events), LAMBDA e : e.round >= lastRound)

\* Step 4: only the events strictly newer than the cursor read.
newer(events, lastRound, lastIntra) ==
    SelectSeq(events, LAMBDA e :
        gt(e.round, lastRound) \/ (eq(e.round, lastRound) /\ gt(e.intra, lastIntra)))

\* Step 5: the safety cap per run.
toPost(newerEvents, maxPostsPerRun) == Slice0(newerEvents, maxPostsPerRun)

\* Variants of the test of step 8: on the round alone, none at all, and
\* with the position read counted as an advance.
shouldAdvanceRoundOnly(maxRound, maxIntra, lastRound, lastIntra) == maxRound > lastRound
shouldAdvanceAlways(maxRound, maxIntra, lastRound, lastIntra) == TRUE
shouldAdvanceNonStrict(maxRound, maxIntra, lastRound, lastIntra) ==
    maxRound > lastRound \/ (maxRound = lastRound /\ maxIntra >= lastIntra)

\* Step 8: whether the cursor is advanced.
shouldAdvance(maxRound, maxIntra, lastRound, lastIntra) ==
    gt(maxRound, lastRound) \/ (eq(maxRound, lastRound) /\ gt(maxIntra, lastIntra))

\* The position step 8 writes.
advanceTarget(c) == [round |-> c.maxRound, intra |-> c.maxIntra]

\* new Error(text), and the errors thrown on an HTTP answer, whose message
\* carries the status and (for the sink) the body of the answer.
Error(text) == [text |-> text, status |-> None, body |-> None]
httpError(text, status, body) == [text |-> text, status |-> Some(status), body |-> body]

\* The catch block: the error in the debug trace, status 500.
Fail(c, message) ==
    [c EXCEPT !.pc = "failed", !.status = 500, !.debug.error = Some(message)]

\* A variant of step 7 that does not look at DRY_RUN.
shouldPostIgnoringDryRun(dryRun, lines) == Len(lines) > 0

\* Step 7: whether postDiscordLines is called.
shouldPost(dryRun, lines) == ~dryRun /\ Len(lines) > 0

\* Steps 4 to 7 up to the first POST, run without suspension once the fetch
\* has returned.
afterFetch(c, dryRun, perMessage) ==
    LET nw    == newer(c.events, c.lastRound, c.lastIntra)
        tp    == toPost(nw, c.maxPostsPerRun)
        lines == tp
        d     == [c.debug EXCEPT !.apiCount = Some(Len(c.events)),
                                 !.newerCount = Some(Len(nw)),
                                 !.toPostCount = Some(Len(tp))]
    IN  IF shouldPost(dryRun, lines)
        THEN [c EXCEPT !.lines = lines, !.debug = d, !.dryRun = dryRun,
                       !.chunkSize = max(Whole(1), perMessage), !.i = 0, !.pc = "send"]
        ELSE [c EXCEPT !.lines = lines, !.dryRun = dryRun,
                       !.debug = [d EXCEPT !.discordPosted = Some(0),
                                           !.note = IF dryRun THEN Some("DRY_RUN=true; skipped posting")
                                                    ELSE None],
                       !.pc = "advance"]

\* The environment as env() reads it: whether DISCORD_WEBHOOK_URL and
\* HOV_EVENTS_URL hold a text, and Number(DISPLAY_DIVISOR ?? "1").
DisplayDivisors == {NaN, -1, 0, 1}
Environments == [webhookUrl : BOOLEAN, apiUrl : BOOLEAN, displayDivisor : DisplayDivisors]
ValidEnv == [webhookUrl |-> TRUE, apiUrl |-> TRUE, displayDivisor |-> 1]

\* env(): the error it throws, checked in the order of the code, or None
\* when it returns the configuration.
env(e) ==
    IF ~e.webhookUrl THEN Some(Error("Missing DISCORD_WEBHOOK_URL"))
    ELSE IF ~e.apiUrl THEN Some(Error("Missing HOV_EVENTS_URL"))
    ELSE IF ~gt(e.displayDivisor, 0) THEN Some(Error("DISPLAY_DIVISOR must be > 0"))
    ELSE None

\* A variant of the handler that takes a lock: it starts only when no
\* other invocation is running.
StartLocked(p, cap, nan, e) ==
    /\ cyc[p].pc = "idle"
    /\ \A q \in Invocations \ {p} : cyc[q].pc = "idle"
    /\ IF env(e) = None
       THEN /\ cyc' = [cyc EXCEPT ![p] = [IdleCyc EXCEPT !.pc = "getCursor",
                                                        !.maxPostsPerRun = IF nan THEN 0 ELSE cap,
                                                        !.maxPostsNaN = nan]]
            /\ UNCHANGED faults
       ELSE /\ faults < MaxFaults
            /\ faults' = faults + 1
            /\ cyc' = [cyc EXCEPT ![p] = Fail(IdleCyc, env(e)[1])]
    /\ UNCHANGED <<kv, feed, delivered, fetchRun, lastFail, apiVars>>

\* env() and the start of the handler, under the environment e: what env()
\* throws is caught and answered with status 500. MAX_POSTS_PER_RUN, which
\* it does not check, is the number cap, or (nan) a text of which Number()
\* makes NaN; the cap is kept as slice(0, maxPostsPerRun) takes it, NaN as 0.
Start(p, cap, nan, e) ==
    /\ cyc[p].pc = "idle"
    /\ IF env(e) = None
       THEN /\ cyc' = [cyc EXCEPT ![p] = [IdleCyc EXCEPT !.pc = "getCursor",
                                                        !.maxPostsPerRun = IF nan THEN 0 ELSE cap,
                                                        !.maxPostsNaN = nan]]
            /\ UNCHANGED faults
       ELSE /\ faults < MaxFaults
            /\ faults' = faults + 1
            /\ cyc' = [cyc EXCEPT ![p] = Fail(IdleCyc, env(e)[1])]
    /\ UNCHANGED <<kv, feed, delivered, fetchRun, lastFail, apiVars>>

\* A variant of step 1 that stores the position it read (creating the keys
\* on first use).
GetCursorCreates(p, ok) ==
    /\ cyc[p].pc = "getCursor"
    /\ ok
    /\ LET cur  == getCursor(kv)
           seed == seedMax(cur.round)
       IN  /\ cyc' = [cyc EXCEPT ![p] =
                  [@ EXCEPT !.lastRound = cur.round, !.lastIntra = cur.intra,
                            !.debug.cursorBefore = Some(cur),
                            !.events = <<>>, !.offset = 0,
                            !.maxRound = seed.maxRound, !.maxIntra = seed.maxIntra,
                            !.pc = "fetch"]]
           /\ kv' = setCursor(kv, cur.round, cur.intra)
    /\ UNCHANGED <<feed, delivered, faults, fetchRun, lastFail, apiVars>>

\* A variant of step 1 that takes the default position when the read fails.
GetCursorDefaults(p, ok) ==
    /\ cyc[p].pc = "getCursor"
    /\ LET cur  == IF ok THEN getCursor(kv) ELSE [round |-> 0, intra |-> 0]
           seed == seedMax(cur.round)
       IN  cyc' = [cyc EXCEPT ![p] =
                  [@ EXCEPT !.lastRound = cur.round, !.lastIntra = cur.intra,
                            !.debug.cursorBefore = Some(cur),
                            !.events = <<>>, !.offset = 0,
                            !.maxRound = seed.maxRound, !.maxIntra = seed.maxIntra,
                            !.pc = "fetch"]]
    /\ IF ok THEN UNCHANGED faults ELSE faults < MaxFaults /\ faults' = faults + 1
    /\ UNCHANGED <<kv, feed, delivered, fetchRun, lastFail, apiVars>>

\* Step 1: await getCursor(), then the locals of fetchAllEventsSince, whose
\* loop is entered since hardLimit > 0.
GetCursor(p, ok) ==
    /\ cyc[p].pc = "getCursor"
    /\ IF ok
       THEN LET cur  == getCursor(kv)
                seed == seedMax(cur.round)
            IN  /\ cyc' = [cyc EXCEPT ![p] =
                       [@ EXCEPT !.lastRound = cur.round, !.lastIntra = cur.intra,
                                 !.debug.cursorBefore = Some(cur),
                                 !.events = <<>>, !.offset = 0,
                                 !.maxRound = seed.maxRound, !.maxIntra = seed.maxIntra,
                                 !.pc = "fetch"]]
                /\ UNCHANGED faults
       ELSE /\ faults < MaxFaults
            /\ faults' = faults + 1
            /\ cyc' = [cyc EXCEPT ![p] = Fail(@, Error("redis mget failed"))]
    /\ UNCHANGED <<kv, feed, delivered, fetchRun, lastFail, apiVars>>

\* One turn of the loop of fetchAllEventsSince: a page request and what
\* follows it up to the next suspension.
FetchPage(p, ok, dryRun, perMessage) ==
    /\ cyc[p].pc = "fetch"
    /\ IF ok
       THEN LET c    == cyc[p]
                page == fetchEventsPage(feed, c.lastRound, c.offset, pageSize)
                m    == trackMax(page.data, c.maxRound, c.maxIntra)
                nx   == fetchNext(Len(c.events), c.offset, Len(page.data),
                                  page.params.limit, hardLimit)
                got  == [c EXCEPT !.events = c.events \o page.data,
                                  !.maxRound = m.maxRound, !.maxIntra = m.maxIntra,
                                  !.offset = nx.offset]
            IN  /\ cyc' = [cyc EXCEPT ![p] =
                       IF nx.more THEN got ELSE afterFetch(got, dryRun, perMessage)]
                /\ UNCHANGED faults
       ELSE /\ faults < MaxFaults
            /\ faults' = faults + 1
            /\ cyc' = [cyc EXCEPT ![p] = Fail(@, httpError("HoV events API error", 500, None))]
    /\ UNCHANGED <<kv, feed, delivered, fetchRun, lastFail, apiVars>>

(***************************************************************************)
(* lib/discord/webhook.ts                                                  *)
(***************************************************************************)
\* The answers of the sink to a POST, their HTTP status, and the bodies
\* of its answers other than 2xx: a text JSON.parse rejects, the JSON text
\* null, or JSON of which retry_after can be read, with a whole number of
\* seconds there or without one.
Answers == {"ok", "429", "err"}
statusOf(r) == CASE r = "ok" -> 204 [] r = "429" -> 429 [] OTHER -> 500
NotJson == [json |-> FALSE, null |-> FALSE, retry_after |-> None]
JsonNull == [json |-> TRUE, null |-> TRUE, retry_after |-> None]
Json(retry_after) == [json |-> TRUE, null |-> FALSE, retry_after |-> retry_after]
Bodies == {NotJson, JsonNull, Json(None), Json(Some(2)), Json(Some(8))}
\* The bodies tried with each answer where the delay is not looked at.
BodiesOf(r) == IF r = "429" THEN {NotJson, Json(Some(2))} ELSE {NotJson}

\* A variant of the delay that does not read the body.
retryAfterMsDefault(body) == 1100

\* (retrySec + 0.05) * 1000 in doubles is above retrySec * 1000 + 50 for
\* the whole seconds 8, 128..131, 2048..2097 and 32768..33554, and equal to
\* it for the others below 100000.
roundsUp(retrySec) ==
    \E k \in 0..3 : 2^(4 * k + 3) <= retrySec /\ retrySec * 1000 < 2^(4 * k + 13)

\* Math.ceil((retrySec + 0.05) * 1000) for whole seconds below 100000.
ceilMs(retrySec) == retrySec * 1000 + 50 + (IF roundsUp(retrySec) THEN 1 ELSE 0)

\* sendOnce on a 429: the delay before the retry, in ms, from the body. The
\* default stays when JSON.parse throws and when the body is null, of which
\* retry_after cannot be read.
retryAfterMs(body) ==
    IF ~body.json \/ body.null THEN 1100
    ELSE LET retrySec == IF body.retry_after # None THEN body.retry_after[1] ELSE 1
         IN  ceilMs(retrySec)

\* sleep(ms) has returned.
sleep(c, ms) == [c EXCEPT !.sleeps = Append(@, ms)]

\* One POST of the webhook and its answer, as the sink saw it: attempt 1 is
\* the fetch of line 14, attempt 2 the one of line 32; slept is the number
\* of sleeps of this invocation before it.
post(c, content, attempt, r, body) ==
    [c EXCEPT !.posts = Append(@, [content |-> content, answer |-> r, attempt |-> attempt,
                                   i |-> c.i, slept |-> Len(c.sleeps),
                                   body |-> IF r = "ok" THEN None ELSE Some(body)])]

\* A variant in which a rejected POST is logged and the handler goes on.
publishFailContinues(c, message) == [c EXCEPT !.pc = "advance"]

\* sendOnce throws on a rejected POST: postDiscordLines and the handler's
\* try block are left, the catch block answers.
publishFail(c, message) == Fail(c, message)

RECURSIVE SumOf(_)
SumOf(s) == IF s = <<>> THEN 0 ELSE Head(s) + SumOf(Tail(s))

\* The content of a message: the lines of its chunk, each known by its
\* index in the chunk and its length in characters; its length is that of
\* the lines joined by newlines.
length(content) == SumOf([k \in 1..Len(content) |-> content[k].len]) + Max(0, Len(content) - 1)

\* content.slice(0, room): what is kept of each line.
RECURSIVE sliceChars(_, _)
sliceChars(content, room) ==
    IF content = <<>> THEN <<>>
    ELSE <<[line |-> Head(content).line, kept |-> Min(Head(content).len, Max(room, 0))]>>
         \o sliceChars(Tail(content), room - Head(content).len - 1)

\* postDiscordMessage: content above MaxContent characters is cut there and
\* ends with an ellipsis.
safe(content) ==
    IF length(content) > MaxContent
    THEN [pieces |-> sliceChars(content, MaxContent), ellipsis |-> TRUE]
    ELSE [pieces |-> sliceChars(content, length(content)), ellipsis |-> FALSE]

\* Step 6: the length of the line built for an event that has no who
\* and a metric of one digit, with the default divisor and unit; a
\* replayUrl follows after a blank. The events of Linked have a replayUrl
\* of 1000 characters, the others none.
replayUrl(e) == IF e \in Linked THEN 1000 ELSE 0
lineLength(e) ==
    Len("A player won 1 VOI. Congrats!!") + (IF replayUrl(e) = 0 THEN 0 ELSE 1 + replayUrl(e))

\* content.slice(0, room) of the joined lines: how many lines it holds in
\* full, from the first on. A line is whole when it ends within the room,
\* and the next one starts after the newline that follows it.
RECURSIVE wholeLines(_, _)
wholeLines(chunk, room) ==
    IF chunk = <<>> \/ lineLength(Head(chunk)) > room THEN 0
    ELSE 1 + wholeLines(Tail(chunk), room - lineLength(Head(chunk)) - 1)

\* postDiscordMessage(webhookUrl, chunk.join("\n")): the content handed to
\* sendOnce, as the lines of the chunk it holds in full. Content above
\* MaxContent characters is cut there: what is kept is a number of whole
\* lines, possibly followed by the beginning of the next one, which is no
\* line of the chunk any more.
postDiscordMessage(chunk) == SubSeq(chunk, 1, wholeLines(chunk, MaxContent))

\* The chunk postDiscordLines sends at index i: lines.slice(i, i + chunkSize).
chunkAt(lines, i, chunkSize) == Slice(lines, trunc(i), trunc(plus(i, chunkSize)))

\* The sink accepts a message: each line it holds in full is delivered once
\* more.
accept(sink, content) ==
    [e \in Upstream |-> sink[e] + Cardinality({k \in 1..Len(content) : content[k] = e})]

\* A variant without the pause between chunks.
chunkDoneNoPause(c) ==
    LET next == plus(c.i, c.chunkSize)
    IN  IF lt(next, Whole(Len(c.lines)))
        THEN [c EXCEPT !.i = next, !.pc = "send"]
        ELSE [c EXCEPT !.i = next, !.pc = "advance",
                       !.debug.discordPosted = Some(Len(c.lines))]

\* After a chunk was accepted: the pause, the next index, and the end of
\* postDiscordLines.
chunkDone(c) ==
    LET next   == plus(c.i, c.chunkSize)
        paused == sleep(c, 250)
    IN  IF lt(next, Whole(Len(c.lines)))
        THEN [paused EXCEPT !.i = next, !.pc = "send"]
        ELSE [paused EXCEPT !.i = next, !.pc = "advance",
                            !.debug.discordPosted = Some(Len(c.lines))]

\* postDiscordMessage and sendOnce for the chunk at i: the first POST of its
\* content; on a 429, the sleep.
SendChunk(p, r, body) ==
    /\ cyc[p].pc = "send"
    /\ \E content \in {postDiscordMessage(chunkAt(cyc[p].lines, cyc[p].i,
                                                  cyc[p].chunkSize))} :
       LET c    == cyc[p]
           sent == post(c, content, 1, r, body)
       IN  CASE r = "ok" ->
                  /\ delivered' = accept(delivered, content)
                  /\ cyc' = [cyc EXCEPT ![p] = chunkDone(sent)]
                  /\ UNCHANGED faults
             [] r = "429" ->
                  /\ cyc' = [cyc EXCEPT ![p] =
                         [sleep(sent, retryAfterMs(body)) EXCEPT !.pc = "retry"]]
                  /\ UNCHANGED <<delivered, faults>>
             [] OTHER ->
                  /\ faults < MaxFaults
                  /\ faults' = faults + 1
                  /\ cyc' = [cyc EXCEPT ![p] =
                         publishFail(sent, httpError("Discord webhook failed",
                                                     statusOf(r), Some(body)))]
                  /\ UNCHANGED delivered
    /\ UNCHANGED <<kv, feed, fetchRun, lastFail, apiVars>>

\* A variant that keeps retrying while the sink answers 429.
RetryAgainOn429(p, r, body) ==
    /\ cyc[p].pc = "retry"
    /\ \E content \in {postDiscordMessage(chunkAt(cyc[p].lines, cyc[p].i,
                                                  cyc[p].chunkSize))} :
       LET c    == cyc[p]
           sent == post(c, content, 2, r, body)
       IN  CASE r = "ok" ->
                  /\ delivered' = accept(delivered, content)
                  /\ cyc' = [cyc EXCEPT ![p] = chunkDone(sent)]
                  /\ UNCHANGED faults
             [] r = "429" ->
                  /\ faults < MaxFaults
                  /\ faults' = faults + 1
                  /\ cyc' = [cyc EXCEPT ![p] = sleep(sent, retryAfterMs(body))]
                  /\ UNCHANGED delivered
             [] OTHER ->
                  /\ faults < MaxFaults
                  /\ faults' = faults + 1
                  /\ cyc' = [cyc EXCEPT ![p] =
                         publishFail(sent, httpError("Discord webhook failed after retry",
                                                     statusOf(r), Some(body)))]
                  /\ UNCHANGED delivered
    /\ UNCHANGED <<kv, feed, fetchRun, lastFail, apiVars>>

\* sendOnce: the single retry after the sleep, with the same content.
Retry(p, r, body) ==
    /\ cyc[p].pc = "retry"
    /\ \E content \in {postDiscordMessage(chunkAt(cyc[p].lines, cyc[p].i,
                                                  cyc[p].chunkSize))} :
       LET c    == cyc[p]
           sent == post(c, content, 2, r, body)
       IN  IF r = "ok"
           THEN /\ delivered' = accept(delivered, content)
                /\ cyc' = [cyc EXCEPT ![p] = chunkDone(sent)]
                /\ UNCHANGED faults
           ELSE /\ faults < MaxFaults
                /\ faults' = faults + 1
                /\ cyc' = [cyc EXCEPT ![p] =
                       publishFail(sent, httpError("Discord webhook failed after retry",
                                                   statusOf(r), Some(body)))]
                /\ UNCHANGED delivered
    /\ UNCHANGED <<kv, feed, fetchRun, lastFail, apiVars>>

\* Step 8 and the response.
Advance(p, ok) ==
    /\ cyc[p].pc = "advance"
    /\ LET c == cyc[p]
           t == advanceTarget(c)
       IN  IF shouldAdvance(c.maxRound, c.maxIntra, c.lastRound, c.lastIntra)
           THEN IF ok
                THEN /\ kv' = setCursor(kv, t.round, t.intra)
                     /\ cyc' = [cyc EXCEPT ![p] =
                            [c EXCEPT !.setCalls = Append(@, t),
                                      !.debug.cursorAdvancedTo = Some(t),
                                      !.status = 200, !.pc = "done"]]
                     /\ UNCHANGED faults
                ELSE /\ faults < MaxFaults
                     /\ faults' = faults + 1
                     /\ cyc' = [cyc EXCEPT ![p] =
                            Fail([c EXCEPT !.setCalls = Append(@, t)],
                                 Error("redis mset failed"))]
                     /\ UNCHANGED kv
           ELSE /\ ok
                /\ cyc' = [cyc EXCEPT ![p] = [c EXCEPT !.status = 200, !.pc = "done"]]
                /\ UNCHANGED <<kv, faults>>
    /\ UNCHANGED <<feed, delivered, fetchRun, lastFail, apiVars>>

\* The last POST of the invocation was rejected, or awaits its retry.
PublishFailed(c) == c.posts # <<>> /\ c.posts[Len(c.posts)].answer # "ok"

\* The lines the sink accepted from this invocation, in order.
RECURSIVE Accepted(_)
Accepted(posts) ==
    IF posts = <<>> THEN <<>>
    ELSE (IF Head(posts).answer = "ok" THEN Head(posts).content ELSE <<>>)
         \o Accepted(Tail(posts))

\* What the properties of consecutive invocations keep of an invocation in
\* which postDiscordLines threw after a first accepted chunk.
failedPublish(c) ==
    IF c.pc = "failed" /\ PublishFailed(c) /\ Accepted(c.posts) # <<>>
    THEN Some([lastRound |-> c.lastRound, lastIntra |-> c.lastIntra,
               events |-> c.events, maxPostsPerRun |-> c.maxPostsPerRun,
               chunkSize |-> c.chunkSize,
               lines |-> c.lines, accepted |-> Accepted(c.posts)])
    ELSE None

\* The response has been returned: the invocation's locals are gone.
Return(p) ==
    /\ cyc[p].pc \in {"done", "failed"}
    /\ cyc' = [cyc EXCEPT ![p] = IdleCyc]
    /\ UNCHANGED <<kv, feed, delivered, faults, fetchRun, apiVars>>

(***************************************************************************)
(* The handlers that write the cursor directly.                            *)
(***************************************************************************)
\* What Number(body.round ?? 0) and Number(body.intra ?? 0) are for the
\* bodies of the operator: a position of the feed or round 0, and for the
\* other bodies also a negative number and NaN (a text that is no number).
PostedRounds == {0} \cup Rounds
PostedIntras == Intras
AnyRounds == PostedRounds \cup {-1, NaN}
AnyIntras == PostedIntras \cup {-1, NaN}

\* POST cursor: setCursor(Number(body.round ?? 0), Number(body.intra ?? 0)),
\* whatever the numbers are and whatever else is running.
SetCursorPOST(round, intra) ==
    /\ faults < MaxFaults
    /\ faults' = faults + 1
    /\ kv' = setCursor(kv, round, intra)
    /\ UNCHANGED <<feed, delivered, cyc, fetchRun, lastFail, apiVars>>

\* GET debug/redis, first await: before = await getCursor().
DebugRedisBefore ==
    /\ debugRun.pc = "idle"
    /\ faults < MaxFaults
    /\ faults' = faults + 1
    /\ debugRun' = [pc |-> "setCursor", before |-> Some(getCursor(kv)), after |-> None]
    /\ UNCHANGED <<kv, feed, delivered, cyc, fetchRun, lastFail,
                   claimRun, pool, listRun, metricRun, publishRun>>

\* Second await: setCursor(before.round + 1, before.intra + 1).
DebugRedisSet ==
    /\ debugRun.pc = "setCursor"
    /\ LET before == debugRun.before[1]
       IN  kv' = setCursor(kv, plus(before.round, 1), plus(before.intra, 1))
    /\ debugRun' = [debugRun EXCEPT !.pc = "getCursor"]
    /\ UNCHANGED <<feed, delivered, cyc, faults, fetchRun, lastFail,
                   claimRun, pool, listRun, metricRun, publishRun>>

\* Third await: after = await getCursor(), and the response {before, after}.
DebugRedisAfter ==
    /\ debugRun.pc = "getCursor"
    /\ debugRun' = [debugRun EXCEPT !.pc = "done", !.after = Some(getCursor(kv))]
    /\ UNCHANGED <<kv, feed, delivered, cyc, faults, fetchRun, lastFail,
                   claimRun, pool, listRun, metricRun, publishRun>>

\* The response has been returned.
DebugRedisReturn ==
    /\ debugRun.pc = "done"
    /\ debugRun' = IdleDebug
    /\ UNCHANGED <<kv, feed, delivered, cyc, faults, fetchRun, lastFail,
                   claimRun, pool, listRun, metricRun, publishRun>>

\* The handler, one step at a time.
DebugRedis == DebugRedisBefore \/ DebugRedisSet \/ DebugRedisAfter \/ DebugRedisReturn

(***************************************************************************)
(* The upstream feed: append-only, positions unique, rounds in the order   *)
(* the chain produces them; within a round the order is the upstream's.    *)
(***************************************************************************)
FeedAppend(e) ==
    /\ Len(feed) < MaxFeed
    /\ \A k \in 1..Len(feed) : feed[k] # e /\ feed[k].round <= e.round
    /\ feed' = Append(feed, e)
    /\ UNCHANGED <<kv, delivered, cyc, faults, fetchRun, lastFail, apiVars>>

\* The feed when the upstream hands out positions in increasing order.
FeedAppendInOrder(e) ==
    /\ FeedAppend(e)
    /\ \A k \in 1..Len(feed) :
           e.round > feed[k].round \/ (e.round = feed[k].round /\ e.intra > feed[k].intra)

\* One invocation at a time: a handler starts only when none is running.
Serial(p) == debugRun.pc = "idle" /\ \A q \in Procs \ {p} : cyc[q].pc = "idle"

\* No poll cycle is running: where the operator uses the cursor routes
\* between two cycles.
BetweenCycles == \A p \in Procs : cyc[p].pc = "idle"

Next ==
    \/ \E e \in HoVEvent : FeedAppend(e)
    \/ \E p \in Procs, cap \in CapChoices, nan \in BOOLEAN :
           Serial(p) /\ Start(p, cap, nan, ValidEnv)
    \/ \E p \in Procs, e \in Environments \ {ValidEnv} :
           Serial(p) /\ Start(p, DefaultMaxPostsPerRun, FALSE, e)
    \/ \E p \in Procs, ok \in BOOLEAN : GetCursor(p, ok)
    \/ \E p \in Procs, ok \in BOOLEAN, dryRun \in BOOLEAN, perMessage \in BatchChoices :
           FetchPage(p, ok, dryRun, perMessage)
    \/ \E p \in Procs, r \in Answers : \E body \in BodiesOf(r) : SendChunk(p, r, body)
    \/ \E p \in Procs, r \in Answers : \E body \in BodiesOf(r) : Retry(p, r, body)
    \/ \E p \in Procs, ok \in BOOLEAN : Advance(p, ok)
    \/ \E p \in Procs : Return(p) /\ UNCHANGED lastFail
    \/ \E round \in PostedRounds, intra \in PostedIntras :
           BetweenCycles /\ debugRun.pc = "idle" /\ SetCursorPOST(round, intra)
    \/ BetweenCycles /\ DebugRedis

Spec == Init /\ [][Next]_vars

(***************************************************************************)
(* Poll cycles only, one at a time, no step failing: the sink may answer   *)
(* 429 once and then accepts.                                              *)
(***************************************************************************)
NextPoll ==
    \/ \E e \in HoVEvent : FeedAppend(e)
    \/ \E p \in Procs, cap \in CapChoices : Serial(p) /\ Start(p, cap, FALSE, ValidEnv)
    \/ \E p \in Procs : GetCursor(p, TRUE)
    \/ \E p \in Procs, dryRun \in BOOLEAN, perMessage \in BatchChoices :
           FetchPage(p, TRUE, dryRun, perMessage)
    \/ \E p \in Procs, body \in BodiesOf("ok") : SendChunk(p, "ok", body)
    \/ \E p \in Procs, body \in Bodies : SendChunk(p, "429", body)
    \/ \E p \in Procs, body \in BodiesOf("ok") : Retry(p, "ok", body)
    \/ \E p \in Procs : Advance(p, TRUE)
    \/ \E p \in Procs : Return(p) /\ UNCHANGED lastFail

SpecPoll == Init /\ [][NextPoll]_vars

(***************************************************************************)
(* The same with publishing cycles only (no dry run, a cap of at least 1), *)
(* a feed whose positions only increase, and the scheduler that keeps      *)
(* invoking the handler and lets every invocation run to its end.          *)
(***************************************************************************)
PollStep ==
    \/ \E p \in Procs, cap \in CapChoices \ (-1..0) : Serial(p) /\ Start(p, cap, FALSE, ValidEnv)
    \/ \E p \in Procs : GetCursor(p, TRUE)
    \/ \E p \in Procs, perMessage \in BatchChoices : FetchPage(p, TRUE, FALSE, perMessage)
    \/ \E p \in Procs, r \in {"ok", "429"} : \E body \in BodiesOf(r) : SendChunk(p, r, body)
    \/ \E p \in Procs, body \in BodiesOf("ok") : Retry(p, "ok", body)
    \/ \E p \in Procs : Advance(p, TRUE)
    \/ \E p \in Procs : Return(p) /\ UNCHANGED lastFail

NextLive ==
    \/ \E e \in HoVEvent : FeedAppendInOrder(e)
    \/ PollStep

SpecFair == Init /\ [][NextLive]_vars /\ WF_vars(PollStep)

(***************************************************************************)
(* Poll cycles one at a time in which only the sink fails, with what the   *)
(* properties of consecutive invocations need of a failed publish kept     *)
(* when its invocation returns. The feed may hold events with a replayUrl, *)
(* whose lines are long enough for a message of two to be cut.             *)
(***************************************************************************)
NextRetry ==
    \/ \E e \in Upstream : FeedAppend(e)
    \/ \E p \in Procs, cap \in CapChoices : Serial(p) /\ Start(p, cap, FALSE, ValidEnv)
    \/ \E p \in Procs : GetCursor(p, TRUE)
    \/ \E p \in Procs, dryRun \in BOOLEAN, perMessage \in BatchChoices :
           FetchPage(p, TRUE, dryRun, perMessage)
    \/ \E p \in Procs, r \in Answers : \E body \in BodiesOf(r) : SendChunk(p, r, body)
    \/ \E p \in Procs, r \in Answers : \E body \in BodiesOf(r) : Retry(p, r, body)
    \/ \E p \in Procs : Advance(p, TRUE)
    \/ \E p \in Procs : Return(p) /\ lastFail' = failedPublish(cyc[p])

SpecRetry == Init /\ [][NextRetry]_vars

(***************************************************************************)
(* Two invocations of the poll handler that may overlap, as when the       *)
(* scheduler invokes the route while an invocation is still running: each  *)
(* await is a point where the other invocation may run. No step fails;   *)
(* the configuration is the default cap, publishing, any batch size.       *)
(***************************************************************************)
NextConc ==
    \/ \E e \in HoVEvent : FeedAppendInOrder(e)
    \/ \E p \in Invocations : Start(p, DefaultMaxPostsPerRun, FALSE, ValidEnv)
    \/ \E p \in Invocations : GetCursor(p, TRUE)
    \/ \E p \in Invocations, perMessage \in BatchChoices :
           FetchPage(p, TRUE, FALSE, perMessage)
    \/ \E p \in Invocations : \E body \in BodiesOf("ok") : SendChunk(p, "ok", body)
    \/ \E p \in Invocations : Advance(p, TRUE)
    \/ \E p \in Invocations : Return(p) /\ UNCHANGED lastFail

SpecConc == Init /\ [][NextConc]_vars

(***************************************************************************)
(* Step 4 on its own: the filter applied to any list of events, in any     *)
(* order and with repetitions, under any cursor.                           *)
(***************************************************************************)
EventLists == UNION {[1..n -> HoVEvent] : n \in 0..MaxFeed}

InitFilter ==
    /\ kv = [k \in {ROUND_KEY, INTRA_KEY} |-> None]
    /\ feed = <<>>
    /\ delivered = [e \in Upstream |-> 0]
    /\ faults = 0
    /\ fetchRun = IdleFetch
    /\ lastFail = None
    /\ ApiIdle
    /\ \E events \in EventLists, lastRound \in {0} \cup Rounds, lastIntra \in Intras :
           cyc = [p \in Invocations |->
                     IF p \in Procs
                     THEN [IdleCyc EXCEPT !.pc = "filter", !.events = events,
                                          !.lastRound = lastRound, !.lastIntra = lastIntra]
                     ELSE IdleCyc]

Filter(p) ==
    /\ cyc[p].pc = "filter"
    /\ LET c == cyc[p]
       IN  cyc' = [cyc EXCEPT ![p] =
                  [c EXCEPT !.lines = newer(c.events, c.lastRound, c.lastIntra),
                            !.pc = "filtered"]]
    /\ UNCHANGED <<kv, feed, delivered, faults, fetchRun, lastFail, apiVars>>

NextFilter == \E p \in Procs : Filter(p)

SpecFilter == InitFilter /\ [][NextFilter]_vars

(***************************************************************************)
(* fetchAllEventsSince on its own, for each hardLimit, against an upstream *)
(* that answers a page request with any number of rows and echoes any      *)
(* limit in params.                                                        *)
(***************************************************************************)
\* hardLimit arguments, row counts of a page and echoed limits tried.
HardLimits == {0, 1, pageSize, pageSize + 1, 250}
PageLens == {0, 1, 50, pageSize}
EchoedLimits == {1, 50, pageSize}

\* The call: the locals before the loop, and the loop's first test.
fetchAllEventsSince(hardLim) ==
    [IdleFetch EXCEPT !.pc = IF 0 < hardLim THEN "loop" ELSE "done",
                      !.hardLimit = hardLim]

InitFetch ==
    /\ kv = [k \in {ROUND_KEY, INTRA_KEY} |-> None]
    /\ feed = <<>>
    /\ delivered = [e \in Upstream |-> 0]
    /\ cyc = [p \in Invocations |-> IdleCyc]
    /\ faults = 0
    /\ lastFail = None
    /\ ApiIdle
    /\ fetchRun \in {fetchAllEventsSince(h) : h \in HardLimits}

\* One turn of the loop: the request fetchEventsPage(offset, pageSize), a
\* page of dataLen rows echoing limit, and the turn's bookkeeping.
FetchTurn(dataLen, limit) ==
    /\ fetchRun.pc = "loop"
    /\ LET f  == fetchRun
           nx == fetchNext(f.len, f.offset, dataLen, limit, f.hardLimit)
       IN  fetchRun' =
               [f EXCEPT !.len = nx.len, !.offset = nx.offset,
                         !.requests = f.requests + 1, !.lastLen = dataLen,
                         !.nonIncreasing = f.nonIncreasing /\ (f.requests = 0 \/ dataLen <= f.lastLen),
                         !.rows = f.rows + dataLen,
                         !.pc = IF nx.more THEN "loop" ELSE "done"]
    /\ UNCHANGED <<kv, feed, delivered, cyc, faults, lastFail, apiVars>>

NextFetch == \E dataLen \in PageLens, limit \in EchoedLimits : FetchTurn(dataLen, limit)

SpecFetch == InitFetch /\ [][NextFetch]_vars

(***************************************************************************)
(* Vocabulary of the properties.                                           *)
(***************************************************************************)
\* a is strictly after b in (round, intra) order, round first.
After(a, b) == a.round > b.round \/ (a.round = b.round /\ a.intra > b.intra)
AtOrAfter(a, b) == a = b \/ After(a, b)

Cursor == getCursor(kv)
CursorRead(c) == [round |-> c.lastRound, intra |-> c.lastIntra]

InFeed(e) == \E k \in 1..Len(feed) : feed[k] = e
Elems(s) == {s[k] : k \in 1..Len(s)}
IsPrefix(s, t) == Len(s) <= Len(t) /\ \A k \in 1..Len(s) : s[k] = t[k]

\* The fetched events strictly after the cursor read, in fetched order.
RECURSIVE StrictlyAfter(_, _)
StrictlyAfter(events, cur) ==
    IF events = <<>> THEN <<>>
    ELSE (IF After(Head(events), cur) THEN <<Head(events)>> ELSE <<>>)
         \o StrictlyAfter(Tail(events), cur)

\* The highest position among the fetched events.
Highest(events) == CHOOSE e \in Elems(events) : \A f \in Elems(events) : AtOrAfter(e, f)

Fetched(c) == c.pc \in {"send", "retry", "advance", "done"}
Ended(c) == c.pc \in {"done", "failed"}

(***************************************************************************)
(* Properties.                                                             *)
(***************************************************************************)
\* C1: with poll cycles run one at a time and no step failing, against an
\* append-only feed of unique positions, the sink accepts no event's line
\* more than once, neither within a cycle nor across cycles.
C1_NoEventPostedTwice == \A e \in HoVEvent : delivered[e] <= 1

\* A later cycle fetched an event that was delivered before, posted another
\* one and did not post the first again.
C1_Witness ==
    \E p \in Procs :
        LET c == cyc[p]
        IN  /\ c.pc = "done"
            /\ Accepted(c.posts) # <<>>
            /\ \E e \in Elems(c.events) :
                   delivered[e] = 1 /\ e \notin Elems(Accepted(c.posts))

\* C2: with publishing cycles invoked again and again, every event of the
\* feed that is strictly after the stored cursor is eventually accepted by
\* the sink, whatever the cap (>= 1) and the number of pending events.
C2_EveryNewerEventEventuallyPosted ==
    \A e \in HoVEvent : (InFeed(e) /\ After(e, Cursor)) ~> (delivered[e] >= 1)

\* C3: after a successful cycle the stored cursor is at or after the cursor
\* the cycle read, and it is untouched when no fetched event is after it.
C3_CursorMonotone ==
    \A p \in Procs :
        LET c == cyc[p]
        IN  c.pc = "done" =>
                /\ AtOrAfter(Cursor, CursorRead(c))
                /\ (\A e \in Elems(c.events) : ~After(e, CursorRead(c)))
                       => (Cursor = CursorRead(c) /\ c.setCalls = <<>>)

\* A successful cycle that advanced a cursor some earlier write had stored.
C3_Witness ==
    \E p \in Procs :
        LET c == cyc[p]
        IN  c.pc = "done" /\ c.setCalls # <<>> /\ c.lastRound >= 100
            /\ After(Cursor, CursorRead(c))

\* C4: a cycle that ends without error calls setCursor(maxRound, maxIntra),
\* once, exactly when that pair is strictly after the cursor it read; if not
\* it writes nothing and cursorAdvancedTo is null.
C4_AdvanceIffStrictlyGreater ==
    \A p \in Procs :
        LET c  == cyc[p]
            mx == [round |-> c.maxRound, intra |-> c.maxIntra]
        IN  c.pc = "done" =>
                IF After(mx, CursorRead(c))
                THEN /\ c.setCalls = <<mx>>
                     /\ c.debug.cursorAdvancedTo = Some(mx)
                     /\ Cursor = mx
                ELSE /\ c.setCalls = <<>>
                     /\ c.debug.cursorAdvancedTo = None
                     /\ Cursor = CursorRead(c)

\* A cycle that fetched events, found the maximum equal to the cursor it
\* read and wrote nothing.
C4_Witness ==
    \E p \in Procs :
        LET c == cyc[p]
        IN  /\ c.pc = "done" /\ c.events # <<>> /\ c.setCalls = <<>>
            /\ [round |-> c.maxRound, intra |-> c.maxIntra] = CursorRead(c)

\* C5: a cycle whose publish step failed on a chunk (after the retry, where
\* the first answer was 429) never calls setCursor: the stored cursor is the
\* one it read, and the response is a 500 with an error and the trace up to
\* the publish step.
C5_PublishFailureLeavesCursor ==
    \A p \in Procs :
        LET c == cyc[p]
        IN  (Ended(c) /\ PublishFailed(c)) =>
                /\ c.pc = "failed" /\ c.status = 500 /\ c.debug.error # None
                /\ c.setCalls = <<>>
                /\ Cursor = CursorRead(c)
                /\ c.debug.cursorBefore = Some(CursorRead(c))
                /\ c.debug.toPostCount = Some(Len(c.lines))
                /\ c.debug.discordPosted = None
                /\ c.debug.cursorAdvancedTo = None

\* A cycle with events after its cursor whose chunk was answered 429 and
\* then rejected again.
C5_Witness ==
    \E p \in Procs :
        LET c == cyc[p]
        IN  /\ c.pc = "failed" /\ Len(c.posts) = 2
            /\ c.posts[1].answer = "429" /\ c.posts[2].answer # "ok"
            /\ After([round |-> c.maxRound, intra |-> c.maxIntra], CursorRead(c))

\* C6: when more events are after the cursor than the cap allows, the cycle
\* publishes the first maxPostsPerRun of them and the cursor ends at the
\* last published one, not at the highest fetched.
C6_CapAdvancesToLastPublished ==
    \A p \in Procs :
        LET c  == cyc[p]
            nw == StrictlyAfter(c.events, CursorRead(c))
        IN  (c.pc = "done" /\ ~c.dryRun /\ c.maxPostsPerRun >= 1
                 /\ Len(nw) > c.maxPostsPerRun) =>
                /\ Accepted(c.posts) = SubSeq(nw, 1, c.maxPostsPerRun)
                /\ Cursor = nw[c.maxPostsPerRun]

\* A step of a poll cycle that ends it with success.
PollAdvanced ==
    \E p \in Procs :
        cyc[p].pc = "advance" /\ cyc'[p].pc = "done" /\ cyc'[p].status = 200

\* C7 as stated: the stored cursor changes only in the last step of a
\* successful poll cycle.
C7_OnlyCycleWritesCursor == [][kv' # kv => PollAdvanced]_vars

\* C7: the stored cursor changes only in the last step of a successful poll
\* cycle, in the cursor POST handler, which stores the numbers it is given,
\* and in the second step of the debug GET handler, which stores the
\* position its first step read plus one in both fields; the two handlers
\* write whether or not a poll cycle is running.
C7_CursorWriters ==
    [][kv' # kv =>
          \/ PollAdvanced
          \/ \E round \in AnyRounds, intra \in AnyIntras :
                 SetCursorPOST(round, intra) /\ Cursor' = [round |-> round, intra |-> intra]
          \/ /\ DebugRedisSet
             /\ Cursor' = [round |-> plus(debugRun.before[1].round, 1),
                           intra |-> plus(debugRun.before[1].intra, 1)]
      ]_vars

\* The keys hold a position although the feed never held an event: no poll
\* cycle can have written it. The debug handler wrote it while a poll cycle
\* was between its cursor read and its end.
C7_Witness ==
    /\ feed = <<>>
    /\ kv[ROUND_KEY] # None
    /\ debugRun.pc = "getCursor"
    /\ \E p \in Procs : cyc[p].pc = "fetch" /\ cyc[p].debug.cursorBefore = debugRun.before

\* C8: a dry-run cycle makes no POST and reports discordPosted 0, and still
\* moves the stored cursor to the highest fetched position when a fetched
\* event is after the cursor it read.
C8_DryRunAdvances ==
    \A p \in Procs :
        LET c == cyc[p]
        IN  (c.pc = "done" /\ c.dryRun) =>
                /\ c.posts = <<>>
                /\ c.debug.discordPosted = Some(0)
                /\ IF \E e \in Elems(c.events) : After(e, CursorRead(c))
                   THEN Cursor = Highest(c.events) /\ c.setCalls = <<Highest(c.events)>>
                   ELSE Cursor = CursorRead(c) /\ c.setCalls = <<>>

\* A dry run with two events to post that advanced the cursor.
C8_Witness ==
    \E p \in Procs :
        LET c == cyc[p]
        IN  c.pc = "done" /\ c.dryRun /\ Len(c.lines) = 2 /\ c.setCalls # <<>>

\* C9: what the sink accepted from a cycle is a prefix of the fetched events
\* strictly after the cursor the cycle read, in fetched order; in particular
\* cursor (100,0) and fetched [(100,1),(100,0),(101,0)] give two newer
\* events, (100,1) then (101,0), and the new cursor (101,0).
C9_PostedArePrefixOfNewer ==
    \A p \in Procs :
        LET c    == cyc[p]
            cur  == CursorRead(c)
            sent == Accepted(c.posts)
        IN  /\ IsPrefix(sent, StrictlyAfter(c.events, cur))
            /\ \A k \in 1..Len(c.posts) : \A e \in Elems(c.posts[k].content) : After(e, cur)
            /\ (Fetched(c) /\ cur = Ev(100, 0)
                    /\ c.events = <<Ev(100, 1), Ev(100, 0), Ev(101, 0)>>) =>
                   /\ c.debug.newerCount = Some(2)
                   /\ IsPrefix(c.lines, <<Ev(100, 1), Ev(101, 0)>>)
                   /\ (c.maxPostsPerRun >= 2 => c.lines = <<Ev(100, 1), Ev(101, 0)>>)
                   /\ (c.pc = "done" => Cursor = Ev(101, 0))

\* The scenario itself, published in full.
C9_Witness ==
    \E p \in Procs :
        LET c == cyc[p]
        IN  /\ c.pc = "done" /\ CursorRead(c) = Ev(100, 0)
            /\ c.events = <<Ev(100, 1), Ev(100, 0), Ev(101, 0)>>
            /\ Accepted(c.posts) = <<Ev(100, 1), Ev(101, 0)>>

\* C10: whatever the fetched list and the cap, no event kept by the cap is
\* after an event the cap dropped.
C10_CapKeepsEarliest ==
    \A p \in Procs :
        LET c  == cyc[p]
            nw == StrictlyAfter(c.events, CursorRead(c))
        IN  (Fetched(c) /\ c.maxPostsPerRun >= 0) =>
                \A k \in Elems(c.lines), d \in Elems(nw) \ Elems(c.lines) : ~After(k, d)

CeilDiv(a, b) == (a + b - 1) \div b

\* C11: for every sequence of upstream responses whose page sizes
\* never increase, fetchAllEventsSince makes at most ceil(hardLimit / 100)
\* page requests.
C11_AtMostCeilRequests ==
    fetchRun.nonIncreasing => fetchRun.requests <= CeilDiv(fetchRun.hardLimit, 100)

\* The sleeps of an invocation between its POSTs k and l: how many, and the
\* ms they add up to.
SleepsBetween(c, k, l) == SubSeq(c.sleeps, c.posts[k].slept + 1, c.posts[l].slept)
PostsOfChunk(c, i) == {k \in 1..Len(c.posts) : c.posts[k].i = i}
\* retry_after of a 429 body, in ms, when the body carries one.
RetryAfterOf(body) ==
    IF body.json /\ body.retry_after # None THEN body.retry_after[1] * 1000 ELSE 0

\* C12: when the sink answers the first POST of a chunk with 429 and the
\* second with 2xx, the chunk has succeeded after exactly one retry: two
\* POSTs for it, of the same content, and between them exactly one sleep,
\* at least as long as the retry_after of the 429 body.
C12_RetryOnceAfterSleep ==
    \A p \in Procs :
        LET c == cyc[p]
        IN  \A k \in 1..(Len(c.posts) - 1) :
                (c.posts[k].attempt = 1 /\ c.posts[k].answer = "429"
                     /\ c.posts[k + 1].answer = "ok")
                => /\ c.posts[k + 1].attempt = 2
                   /\ c.posts[k + 1].content = c.posts[k].content
                   /\ PostsOfChunk(c, c.posts[k].i) = {k, k + 1}
                   /\ Len(SleepsBetween(c, k, k + 1)) = 1
                   /\ SumOf(SleepsBetween(c, k, k + 1)) >= RetryAfterOf(c.posts[k].body[1])
                   /\ c.pc # "failed" /\ c.i # c.posts[k].i

C12_Witness ==
    \E p \in Procs :
        LET c == cyc[p]
        IN  /\ c.pc = "done" /\ Len(c.posts) = 2
            /\ c.posts[1].answer = "429" /\ c.posts[1].body[1].retry_after = Some(2)
            /\ c.posts[2].answer = "ok" /\ c.posts[2].attempt = 2
            /\ \A e \in Elems(c.posts[1].content) : delivered[e] = 1

\* C13: a chunk gets at most two POSTs; the second only after a 429 to the
\* first, with the same content. A second POST answered other than 2xx (a
\* second 429 included) and a first POST answered other than 2xx and 429
\* are the invocation's last POST: the publish fails, with an error that
\* names the HTTP status and the body, and the answer is 500.
C13_AtMostOneRetry ==
    \A p \in Procs :
        LET c == cyc[p]
        IN  \A k \in 1..Len(c.posts) :
                LET q == c.posts[k]
                IN  /\ Cardinality(PostsOfChunk(c, q.i)) <= 2
                    /\ q.attempt = 2
                       => /\ k > 1
                          /\ c.posts[k - 1].attempt = 1 /\ c.posts[k - 1].answer = "429"
                          /\ c.posts[k - 1].content = q.content /\ c.posts[k - 1].i = q.i
                    /\ (q.answer # "ok" /\ (q.attempt = 2 \/ q.answer # "429"))
                       => /\ k = Len(c.posts)
                          /\ c.pc = "failed" /\ c.status = 500
                          /\ c.debug.error =
                                 Some(httpError(IF q.attempt = 2
                                                THEN "Discord webhook failed after retry"
                                                ELSE "Discord webhook failed",
                                                statusOf(q.answer), q.body))

C13_Witness ==
    \E p \in Procs :
        LET c == cyc[p]
        IN  /\ c.pc = "failed" /\ Len(c.posts) = 2
            /\ c.posts[1].answer = "429" /\ c.posts[2].answer = "429"
            /\ c.debug.error # None /\ c.debug.error[1].status = Some(429)

\* C14: within one publish the chunks are sent one after another in input
\* order: the first POST of a chunk is at index 0 or follows the accepted
\* POST of the chunk before it and exactly one pause of 250 ms; a POST is
\* issued only when the one before it has been answered; and no POST
\* follows a failed chunk.
C14_ChunksInOrderWithPause ==
    \A p \in Procs :
        LET c == cyc[p]
        IN  /\ IsPrefix(Accepted(c.posts), c.lines)
            /\ \A k \in 1..Len(c.posts) :
                LET q == c.posts[k]
                IN  /\ q.content = chunkAt(c.lines, q.i, c.chunkSize)
                    /\ q.attempt = 1
                       => IF k = 1 THEN q.i = 0 /\ q.slept = 0
                          ELSE /\ c.posts[k - 1].answer = "ok"
                               /\ q.i = plus(c.posts[k - 1].i, c.chunkSize)
                               /\ SleepsBetween(c, k - 1, k) = <<250>>
                    /\ k < Len(c.posts)
                       => q.answer = "ok" \/ (q.answer = "429" /\ q.attempt = 1)

C14_Witness ==
    \E p \in Procs :
        LET c == cyc[p]
        IN  /\ c.pc = "failed" /\ Len(c.lines) = 3 /\ c.chunkSize = Whole(1)
            /\ Len(c.posts) = 2
            /\ c.posts[1].answer = "ok" /\ c.posts[2].attempt = 1 /\ c.posts[2].answer = "err"

\* The invocation c follows, with nothing in between, an invocation whose
\* publish failed after at least one accepted chunk, and has fetched the same
\* events under the same configuration.
RetriesFailedPublish(c) ==
    /\ lastFail # None
    /\ c.pc \in {"send", "retry", "advance", "done"}
    /\ c.events = lastFail[1].events
    /\ c.maxPostsPerRun = lastFail[1].maxPostsPerRun
    /\ c.chunkSize = lastFail[1].chunkSize
    /\ ~c.dryRun

\* C15: the invocation that follows one whose publish failed at a chunk
\* after the first, with the upstream feed unchanged and the configuration
\* the same, has read the same cursor and attempts the same lines again;
\* when it succeeds, every event of the window has been accepted at least
\* once and those of the chunks accepted before the failure twice.
C15_FailedWindowPostedAgain ==
    \A p \in Procs :
        LET c    == cyc[p]
            prev == lastFail[1]
        IN  RetriesFailedPublish(c)
            => /\ CursorRead(c) = CursorRead(prev)
               /\ c.lines = prev.lines
               /\ c.pc = "done"
                  => /\ Accepted(c.posts) = prev.lines
                     /\ \A e \in Elems(prev.lines) : delivered[e] >= 1
                     /\ \A e \in Elems(prev.accepted) : delivered[e] >= 2

\* The invocation failed before the publish: at the cursor read or at a
\* page request.
CursorReadFailed(c) == c.pc = "failed" /\ c.debug.error = Some(Error("redis mget failed"))
PageRequestFailed(c) ==
    c.pc = "failed" /\ c.debug.error = Some(httpError("HoV events API error", 500, None))

\* C16: an invocation that fails at the cursor read or at a page request has
\* made no POST and no cursor write and answers 500 with the error; a failed
\* cursor read is not taken for the position (0, 0): the invocation goes no
\* further, and one that goes further holds the position stored; the events
\* of the pages fetched before a failing page are neither published nor
\* committed.
C16_FailureBeforePublishHasNoEffect ==
    \A p \in Procs :
        LET c == cyc[p]
        IN  /\ (CursorReadFailed(c) \/ PageRequestFailed(c))
               => /\ c.posts = <<>> /\ c.setCalls = <<>> /\ c.lines = <<>>
                  /\ c.status = 500
                  /\ c.debug.discordPosted = None /\ c.debug.cursorAdvancedTo = None
            /\ CursorReadFailed(c)
               => c.debug.cursorBefore = None /\ c.events = <<>> /\ c.offset = 0
            /\ PageRequestFailed(c)
               => c.debug.cursorBefore = Some(Cursor) /\ CursorRead(c) = Cursor
            /\ c.pc \in {"fetch", "send", "retry", "advance"}
               => c.debug.cursorBefore = Some(Cursor) /\ CursorRead(c) = Cursor

C16_Witness ==
    \E p \in Procs :
        /\ PageRequestFailed(cyc[p])
        /\ Len(cyc[p].events) = ServerMaxLimit
        /\ \E e \in Elems(cyc[p].events) : After(e, Cursor) /\ delivered[e] = 0
        /\ Cursor.round > 0

\* C17: an invocation whose configuration holds an invalid number (here
\* MAX_POSTS_PER_RUN, of which Number() makes NaN) makes no POST and no
\* cursor write and ends failed, with status 500.
C17_InvalidConfigFailsBeforeEffects ==
    \A p \in Procs :
        LET c == cyc[p]
        IN  c.maxPostsNaN
            => /\ c.posts = <<>> /\ c.setCalls = <<>>
               /\ c.pc # "done"
               /\ Ended(c) => c.status = 500 /\ c.debug.error # None

\* C18: nothing in the cycle keeps two invocations apart. Whatever the other
\* invocation is doing, an invocation can start, its cursor read returns
\* the position stored at that moment, and once it holds lines to post its
\* POST goes out. So the interleaving is reachable (C18_Witness) in which
\* two invocations read the same cursor, fetch the same newer events and
\* both post them: the sink accepts the same event's line twice.
C18_OverlapNotPrevented ==
    \A p \in Invocations :
        /\ cyc[p].pc = "idle" => ENABLED Start(p, DefaultMaxPostsPerRun, FALSE, ValidEnv)
        /\ cyc[p].pc = "getCursor" => ENABLED GetCursor(p, TRUE)
        /\ cyc[p].pc = "send"
           => ENABLED SendChunk(p, "ok", NotJson)
        /\ cyc[p].pc = "advance" => ENABLED Advance(p, TRUE)

C18_Witness ==
    /\ \A p \in Invocations : cyc[p].pc \in {"advance", "done"}
    /\ CursorRead(cyc[1]) = CursorRead(cyc[2])
    /\ cyc[1].events = cyc[2].events
    /\ cyc[1].lines = cyc[2].lines /\ cyc[1].lines # <<>>
    /\ \A p \in Invocations : Accepted(cyc[p].posts) = cyc[p].lines
    /\ \A e \in Elems(cyc[1].lines) : delivered[e] = 2

\* C19: whichever way the cursor reads and writes of overlapping invocations
\* interleave, the store holds either nothing (read as (0, 0)) or both keys;
\* a write replaces both keys in one step by the pair of one setCursor call;
\* and a read takes both keys of one state of the store. So what getCursor
\* returns is (0, 0) or a pair written together, never the round of one
\* write with the intra of another.
C19_CursorPairWrittenTogether ==
    [][/\ (kv[ROUND_KEY] = None) = (kv[INTRA_KEY] = None)
       /\ (kv'[ROUND_KEY] = None) = (kv'[INTRA_KEY] = None)
       /\ \A p \in Invocations :
              (cyc[p].pc = "getCursor" /\ cyc'[p].pc = "fetch")
              => /\ CursorRead(cyc'[p]) = getCursor(kv)
                 /\ kv[ROUND_KEY] = None => CursorRead(cyc'[p]) = [round |-> 0, intra |-> 0]
                 /\ kv[ROUND_KEY] # None
                    => /\ String(cyc'[p].lastRound) = kv[ROUND_KEY][1]
                       /\ String(cyc'[p].lastIntra) = kv[INTRA_KEY][1]
       /\ kv' # kv
          => \E p \in Invocations :
                 LET t == advanceTarget(cyc[p])
                 IN  /\ cyc[p].pc = "advance"
                     /\ cyc'[p].setCalls = <<t>>
                     /\ kv'[ROUND_KEY] = Some(String(t.round))
                     /\ kv'[INTRA_KEY] = Some(String(t.intra))
      ]_vars

C19_Witness ==
    /\ cyc[1].pc = "fetch" /\ cyc[2].pc = "done"
    /\ cyc[2].setCalls = <<CursorRead(cyc[1])>>
    /\ cyc[1].lastIntra > 0
    /\ cyc[1].lastRound # cyc[2].lastRound

\* C20: the filter is idempotent: applied under the same cursor to its own
\* result, it returns that result.
C20_FilterIdempotent ==
    \A p \in Procs :
        LET c == cyc[p]
        IN  c.pc = "filtered"
            => /\ c.lines = newer(c.events, c.lastRound, c.lastIntra)
               /\ newer(c.lines, c.lastRound, c.lastIntra) = c.lines

C20_Witness ==
    \E p \in Procs :
        LET c == cyc[p]
        IN  /\ c.pc = "filtered"
            /\ Len(c.events) = 3 /\ Len(c.lines) = 2
            /\ c.lines[1] = c.events[2] /\ c.lines[2] = c.events[3]
            /\ c.events[1] = CursorRead(c)

(***************************************************************************)
(* app/api/claim/route.ts: POST /api/claim                                 *)
(* One request. The catalog read from disk, the address check of algosdk   *)
(* and what hasAchievement, checkRequirement and mint answer are the       *)
(* environment's: each is drawn where the handler asks for it.             *)
(***************************************************************************)
\* The ids exported by the achievement files, and an id no file exports.
AchIds == {"a1", "a2"}
MissingId == "zz"

\* What an awaited call does: it returns a value or it throws.
Threw == "threw"
NotCalled == "not called"
AppIdCalls == {"appId", Threw}
Checks == {"true", "false", Threw}
\* What checkRequirement resolves to: a boolean or, in the achievement
\* files that report progress, an object {eligible, progress}; or it throws.
Requirements == Checks \cup {"{eligible: true}", "{eligible: false}"}
\* !value is false for the values awaited here: every object is truthy.
truthy(value) == value # "false"
Mints == {"TX1", Threw}

\* An entry of the catalog after loadAchievements normalised it; shape is
\* what isAchievement says of it.
Achievement == [id : AchIds, enabled : BOOLEAN, hidden : BOOLEAN, shape : BOOLEAN]

\* The catalogs: at most one entry per id, in any order.
Catalogs ==
    {all \in UNION {[1..n -> Achievement] : n \in 0..Cardinality(AchIds)} :
        \A i, j \in 1..Len(all) : all[i].id = all[j].id => i = j}

\* all.find((a) => a.id === requestedId): its index, 0 when there is none.
find(all, requestedId) ==
    IF \E k \in 1..Len(all) : all[k].id = requestedId
    THEN CHOOSE k \in 1..Len(all) :
             /\ all[k].id = requestedId
             /\ \A j \in 1..(k - 1) : all[j].id # requestedId
    ELSE 0

\* The handler up to its loop: the 400 of an absent or invalid account,
\* loadAchievements, and the choice of targets.
POST(account, valid, requestedId, all) ==
    IF account = None \/ ~valid
    THEN [pc |-> "done", account |-> account, valid |-> valid,
          requestedId |-> requestedId, loaded |-> FALSE,
          targets |-> <<>>, k |-> 1, asked |-> <<>>,
          minted |-> <<>>, errors |-> <<>>,
          status |-> 400, body |-> [error |-> "Invalid account"]]
    ELSE LET found == IF requestedId = None THEN 0 ELSE find(all, requestedId[1])
             base == [pc |-> "loop", account |-> account, valid |-> valid,
                      requestedId |-> requestedId, loaded |-> TRUE,
                      targets |-> all, k |-> 1, asked |-> <<>>,
                      minted |-> <<>>, errors |-> <<>>,
                      status |-> 0, body |-> [error |-> ""]]
         IN  IF requestedId = None THEN base
             ELSE IF found = 0
             THEN [base EXCEPT !.pc = "done", !.targets = <<>>, !.status = 200,
                               !.errors = <<[id |-> requestedId[1], reason |-> "Not found"]>>]
             ELSE [base EXCEPT !.targets = <<all[found]>>]

\* A skip of the loop: it is reported only when the request named the id.
skip(r, item, reason) ==
    IF r.requestedId # None
    THEN Append(r.errors, [id |-> item.id, reason |-> reason])
    ELSE r.errors

\* The enabled test of the loop body.
claimable(item) == item.enabled

\* The body of the loop for one target: what it asks, in the order it asks,
\* and the entry it adds to minted or to errors.
claimOne(r, item, appId, owned, eligible, mint) ==
    LET ask(g, o, e, m) == Append(r.asked, [id |-> item.id, getContractAppId |-> g,
                                            hasAchievement |-> o,
                                            checkRequirement |-> e, mint |-> m])
        call(o, e, m) == ask(appId, o, e, m)
        thrown == Append(r.errors, [id |-> item.id, reason |-> Threw])
    IN  IF ~item.shape
        THEN [r EXCEPT !.asked = ask(NotCalled, NotCalled, NotCalled, NotCalled),
                       !.errors = Append(r.errors,
                           [id |-> item.id,
                            reason |-> "Invalid achievement export (missing required methods)"])]
        ELSE IF ~claimable(item)
        THEN [r EXCEPT !.asked = ask(NotCalled, NotCalled, NotCalled, NotCalled),
                       !.errors = skip(r, item, "Disabled")]
        ELSE IF appId = Threw
        THEN [r EXCEPT !.asked = call(NotCalled, NotCalled, NotCalled), !.errors = thrown]
        ELSE IF owned = Threw
        THEN [r EXCEPT !.asked = call(owned, NotCalled, NotCalled), !.errors = thrown]
        ELSE IF truthy(owned)
        THEN [r EXCEPT !.asked = call(owned, NotCalled, NotCalled),
                       !.errors = skip(r, item, "Already minted")]
        ELSE IF eligible = Threw
        THEN [r EXCEPT !.asked = call(owned, eligible, NotCalled), !.errors = thrown]
        ELSE IF ~truthy(eligible)
        THEN [r EXCEPT !.asked = call(owned, eligible, NotCalled),
                       !.errors = skip(r, item, "Not eligible")]
        ELSE IF mint = Threw
        THEN [r EXCEPT !.asked = call(owned, eligible, mint), !.errors = thrown]
        ELSE [r EXCEPT !.asked = call(owned, eligible, mint),
                       !.minted = Append(r.minted, [id |-> item.id, txnId |-> mint])]

nextTargetUnlessThrown(r) ==
    IF Threw \in {r.asked[r.k].getContractAppId, r.asked[r.k].hasAchievement,
                  r.asked[r.k].checkRequirement, r.asked[r.k].mint}
    THEN [r EXCEPT !.pc = "done", !.status = 500]
    ELSE [r EXCEPT !.k = r.k + 1]

\* The end of a turn, by continue, by the end of the try block or by its
\* catch: the loop goes on with the next target.
nextTarget(r) == [r EXCEPT !.k = r.k + 1]

\* A request arrives.
ClaimRequest ==
    /\ claimRun.pc = "idle"
    /\ \E account \in {None, Some("addr")}, valid \in BOOLEAN,
          requestedId \in {None} \cup {Some(id) : id \in AchIds \cup {MissingId}},
          all \in Catalogs :
           claimRun' = POST(account, valid, requestedId, all)
    /\ UNCHANGED <<pollVars, debugRun, pool, listRun, metricRun, publishRun>>

\* One turn of the loop over targets.
ClaimTarget ==
    /\ claimRun.pc = "loop"
    /\ claimRun.k <= Len(claimRun.targets)
    /\ \E appId \in AppIdCalls, owned \in Checks, eligible \in Requirements, mint \in Mints :
           claimRun' = nextTarget(claimOne(claimRun, claimRun.targets[claimRun.k],
                                           appId, owned, eligible, mint))
    /\ UNCHANGED <<pollVars, debugRun, pool, listRun, metricRun, publishRun>>

\* The loop is over: 200 with minted and errors.
ClaimRespond ==
    /\ claimRun.pc = "loop"
    /\ claimRun.k > Len(claimRun.targets)
    /\ claimRun' = [claimRun EXCEPT !.pc = "done", !.status = 200]
    /\ UNCHANGED <<pollVars, debugRun, pool, listRun, metricRun, publishRun>>

NextClaim == ClaimRequest \/ ClaimTarget \/ ClaimRespond

SpecClaim == Init /\ [][NextClaim]_vars

(***************************************************************************)
(* POST /api/claim: vocabulary of the claims                               *)
(***************************************************************************)
\* The loop of a request without id has handled target j.
Handled(j) ==
    /\ claimRun.pc \in {"loop", "done"}
    /\ claimRun.loaded
    /\ j \in 1..Len(claimRun.asked)

MintCalled(j) == claimRun.asked[j].mint # NotCalled
MintedEntries(id) == {n \in 1..Len(claimRun.minted) : claimRun.minted[n].id = id}
ErrorEntries(id) == {n \in 1..Len(claimRun.errors) : claimRun.errors[n].id = id}

\* What checkRequirement answered says the account is eligible, or is not.
Eligible(result) == result \in {"true", "{eligible: true}"}
Ineligible(result) == result \in {"false", "{eligible: false}"}

\* Target j was passed over: disabled, already owned, or not eligible.
Skipped(j) ==
    /\ claimRun.targets[j].shape
    /\ \/ ~claimRun.targets[j].enabled
       \/ claimRun.asked[j].hasAchievement = "true"
       \/ Ineligible(claimRun.asked[j].checkRequirement)

\* C21: in a request with a valid account and no id, mint is called for an
\* achievement exactly when it is enabled, the ownership check answered
\* false and checkRequirement answered that the account is eligible (true,
\* or an object whose eligible is true); its id is in minted, with the
\* transaction id mint returned, exactly when mint was called and returned;
\* a disabled, owned or ineligible achievement is not minted and adds no
\* entry to errors.
C21_MintsExactlyEligibleUnowned ==
    claimRun.pc \in {"loop", "done"} /\ claimRun.requestedId = None
    => \A j \in 1..Len(claimRun.asked) :
           LET item == claimRun.targets[j]
               a == claimRun.asked[j]
           IN  Handled(j) /\ item.shape
               => /\ MintCalled(j) <=> /\ item.enabled
                                       /\ a.hasAchievement = "false"
                                       /\ Eligible(a.checkRequirement)
                  /\ \A n \in MintedEntries(item.id) :
                         MintCalled(j) /\ claimRun.minted[n].txnId = a.mint
                  /\ MintCalled(j) /\ a.mint # Threw
                         => Cardinality(MintedEntries(item.id)) = 1
                  /\ Skipped(j) => ~MintCalled(j) /\ ErrorEntries(item.id) = {}

\* Handling target j threw, in getContractAppId, in the ownership check, in
\* checkRequirement or in mint.
Thrown(j) ==
    Threw \in {claimRun.asked[j].getContractAppId, claimRun.asked[j].hasAchievement,
               claimRun.asked[j].checkRequirement, claimRun.asked[j].mint}

\* C22: an error thrown while one achievement is checked or minted is
\* recorded as an entry {id, reason} of errors, the targets are handled one
\* after the other in their order whatever was thrown, and the response is
\* then 200; an absent or invalid account is answered 400 with
\* {error: 'Invalid account'} before any achievement is loaded, checked or
\* minted.
C22_FailuresIsolatedPerAchievement ==
    /\ claimRun.pc \in {"loop", "done"} /\ claimRun.loaded
       => /\ claimRun.account # None /\ claimRun.valid
          /\ Len(claimRun.asked) = claimRun.k - 1
          /\ \A j \in 1..Len(claimRun.asked) :
                 /\ claimRun.asked[j].id = claimRun.targets[j].id
                 /\ Thrown(j)
                    => /\ \E n \in ErrorEntries(claimRun.targets[j].id) :
                              claimRun.errors[n].reason = Threw
                       /\ MintedEntries(claimRun.targets[j].id) = {}
          /\ claimRun.pc = "done"
             => claimRun.status = 200 /\ Len(claimRun.asked) = Len(claimRun.targets)
    /\ claimRun.pc # "idle" /\ (claimRun.account = None \/ ~claimRun.valid)
       => /\ claimRun.pc = "done" /\ claimRun.status = 400
          /\ claimRun.body = [error |-> "Invalid account"]
          /\ ~claimRun.loaded
          /\ claimRun.asked = <<>> /\ claimRun.minted = <<>> /\ claimRun.errors = <<>>

C22_Witness ==
    /\ claimRun.pc = "done" /\ claimRun.status = 200
    /\ Len(claimRun.targets) = 2
    /\ claimRun.asked[1].mint = Threw
    /\ claimRun.errors = <<[id |-> claimRun.targets[1].id, reason |-> Threw]>>
    /\ claimRun.minted = <<[id |-> claimRun.targets[2].id, txnId |-> "TX1"]>>

(***************************************************************************)
(* app/api/achievements/route.ts: promisePool                              *)
(* A call with any items and a concurrency its caller can pass. A worker   *)
(* is in flight from its start to the moment its promise settles; workers  *)
(* settle in any order, each by resolving or by rejecting.                 *)
(***************************************************************************)
MaxItems == 3
MaxConcurrency == 2
ItemValues == {"x", "y"}

\* Number(process.env.ACH_CONCURRENCY ?? 4): the default, the whole numbers
\* of a variable that holds one, and NaN for a text that is no number.
DefaultConcurrency == 4
AchConcurrency == {NaN, DefaultConcurrency} \cup (0..MaxConcurrency)

\* The concurrency the list handler passes: Math.max(1, Number(...)).
Concurrencies == {max(1, x) : x \in AchConcurrency}

\* The inner loop of launch: workers are started while active < concurrency
\* and items remain; idx = i++ is the position of the item started.
RECURSIVE launchAll(_)
launchAll(q) ==
    IF q.i < Len(q.items)
    THEN launchAll([q EXCEPT !.i = q.i + 1, !.active = q.active + 1,
                             !.running = q.running \cup {q.i + 1},
                             !.starts = [q.starts EXCEPT ![q.i + 1] = @ + 1]])
    ELSE q

\* active < concurrency is false when concurrency is NaN.
RECURSIVE launch(_)
launch(q) ==
    IF lt(q.active, q.concurrency) /\ q.i < Len(q.items)
    THEN launch([q EXCEPT !.i = q.i + 1, !.active = q.active + 1,
                          !.running = q.running \cup {q.i + 1},
                          !.starts = [q.starts EXCEPT ![q.i + 1] = @ + 1]])
    ELSE q

\* resolve(out) and reject(e): the first to be called settles the promise.
resolve(q) == IF q.pc = "pending" THEN [q EXCEPT !.pc = "resolved"] ELSE q
reject(q) == IF q.pc = "pending" THEN [q EXCEPT !.pc = "rejected"] ELSE q

\* The call: out, i, active, and the first launch().
promisePool(items, concurrency) ==
    launch([pc |-> "pending", items |-> items, concurrency |-> concurrency,
            out |-> [k \in 1..Len(items) |-> None], i |-> 0, active |-> 0,
            running |-> {}, starts |-> [k \in 1..Len(items) |-> 0],
            completed |-> <<>>])

\* The then of a worker: out[idx] = res, active--, and resolve(out) or
\* launch().
then(q, idx, res) ==
    LET r == [q EXCEPT !.out[idx] = Some(res), !.active = q.active - 1,
                       !.running = q.running \ {idx},
                       !.completed = Append(q.completed, idx)]
    IN  IF r.i = Len(r.items) /\ r.active = 0 THEN resolve(r) ELSE launch(r)

\* The catch of a worker: reject(e); active is left as it is.
catch(q, idx) == reject([q EXCEPT !.running = q.running \ {idx}])

\* What the worker returns for an item in a call of the pool on its own.
work(item, idx) == [item |-> item, idx |-> idx]

PoolCall ==
    /\ pool.pc = "idle"
    /\ \E n \in 0..MaxItems, concurrency \in Concurrencies :
           \E items \in [1..n -> ItemValues] :
               pool' = promisePool(items, concurrency)
    /\ UNCHANGED <<pollVars, debugRun, claimRun, listRun, metricRun, publishRun>>

WorkerResolves(idx, res) ==
    /\ pool.pc # "idle"
    /\ idx \in pool.running
    /\ pool' = then(pool, idx, res)
    /\ UNCHANGED <<pollVars, debugRun, claimRun, listRun, metricRun, publishRun>>

WorkerRejects(idx) ==
    /\ pool.pc # "idle"
    /\ idx \in pool.running
    /\ pool' = catch(pool, idx)
    /\ UNCHANGED <<pollVars, debugRun, claimRun, listRun, metricRun, publishRun>>

NextPool ==
    \/ PoolCall
    \/ \E idx \in 1..MaxItems :
           /\ pool.pc # "idle" /\ idx \in pool.running
           /\ WorkerResolves(idx, work(pool.items[idx], idx))
    \/ \E idx \in 1..MaxItems : WorkerRejects(idx)

SpecPool == Init /\ [][NextPool]_vars

Categories == {"wins", "game"}

\* What getContractAppId() of an entry does: it returns 0, it returns the
\* id of an application, or it throws (None).
ContractAppIds == {7}
AppIds == {None, Some(0)} \cup {Some(n) : n \in ContractAppIds}

\* An entry of the files, after the defaults of loadAchievements.
Listed == [id : AchIds, enabled : BOOLEAN, hidden : BOOLEAN,
           category : Categories, appId : AppIds]

Listings ==
    {all \in UNION {[1..n -> Listed] : n \in 0..Cardinality(AchIds)} :
        \A i, j \in 1..Len(all) : all[i].id = all[j].id => i = j}

\* loadAchievements of the list route: the disabled entries are dropped.
loadAchievements(all) == SelectSeq(all, LAMBDA a : a.enabled)

\* The category filter of list mode.
selected(achievements, category) ==
    IF category = None THEN achievements
    ELSE SelectSeq(achievements, LAMBDA a : a.category = category[1])

\* ownMemo of a request: no entry.
NoMemo == [n \in ContractAppIds |-> None]

\* checkOwned with an account, up to its first wait: appId 0 is not looked
\* up and a memo hit is returned as it is; None when hasAchievement is asked
\* (and when getContractAppId threw: nothing is returned).
checkOwned(a, ownMemo) ==
    IF a.appId = None THEN None
    ELSE IF a.appId[1] = 0 THEN Some(FALSE)
    ELSE ownMemo[a.appId[1]]

\* checkOwned after withRetry: a lookup that withRetry gives up on counts as
\* not owned.
lookedUp(has) == IF has = Threw THEN FALSE ELSE has = "true"

\* ownMemo.set(key, res), made for a lookup that returned.
memoSet(ownMemo, a, has) ==
    IF has = Threw THEN ownMemo ELSE [ownMemo EXCEPT ![a.appId[1]] = Some(has = "true")]

\* The workers launch() started between two states of the pool: the
\* checkOwned of each has run to its first wait.
started(r, before, after) ==
    [r EXCEPT !.owned = [idx \in 1..Len(r.list) |->
                            IF idx \in after \ before
                            THEN checkOwned(r.list[idx], r.ownMemo)
                            ELSE r.owned[idx]]]

\* runRequirement with an account: the boolean checkRequirement resolved
\* to, or !!result.eligible of the object; an error counts as not eligible.
runRequirement(check) ==
    IF check = Threw THEN FALSE ELSE check \in {"true", "{eligible: true}"}

showAll(a, r) == TRUE

\* Hidden gating: show = a.hidden ? r.owned : true.
show(a, r) == IF a.hidden THEN r.owned ELSE TRUE

RECURSIVE visible(_, _, _)
visible(list, results, k) ==
    IF k > Len(list) THEN <<>>
    ELSE IF show(list[k], results[k])
         THEN <<[a |-> list[k], r |-> results[k]]>> \o visible(list, results, k + 1)
         ELSE visible(list, results, k + 1)

\* x.name.localeCompare(y.name) < 0 for the names in use.
Before(x, y) == \/ x = "a1" /\ y = "a2"

\* toMeta: owned and eligible are part of an entry when there is an account.
toMeta(v, account) ==
    IF account # None
    THEN [id |-> v.a.id, owned |-> Some(v.r.owned), eligible |-> Some(v.r.eligible)]
    ELSE [id |-> v.a.id, owned |-> None, eligible |-> None]

\* Array.prototype.sort with the comparator of the handler (stable).
RECURSIVE sort(_)
sort(metas) ==
    IF Len(metas) <= 1 THEN metas
    ELSE LET rest == sort(Tail(metas))
             x == Head(metas)
             smaller == SelectSeq(rest, LAMBDA y : Before(y.id, x.id))
             others == SelectSeq(rest, LAMBDA y : ~Before(y.id, x.id))
         IN  smaller \o <<x>> \o others

\* From the hidden gating to the response.
respond(r, results) ==
    LET vis == visible(r.list, results, 1)
    IN  [r EXCEPT !.pc = "done", !.status = 200, !.results = results,
                  !.body = sort([k \in 1..Len(vis) |-> toMeta(vis[k], r.account)])]

\* The handler to its first wait: the 400 of a malformed account, the
\* catalog, the filters and, with an account, the call of promisePool.
GET(account, format, category, all) ==
    LET list == selected(loadAchievements(all), category)
        r == [pc |-> "await", account |-> account, category |-> category,
              all |-> all, list |-> list,
              ownMemo |-> NoMemo, owned |-> [idx \in 1..Len(list) |-> None],
              results |-> <<>>, body |-> <<>>, status |-> 0]
    IN  IF account # None /\ ~format
        THEN [r EXCEPT !.pc = "done", !.status = 400, !.list = <<>>, !.owned = <<>>]
        ELSE IF account # None THEN r
        ELSE respond(r, [k \in 1..Len(r.list) |-> [owned |-> FALSE, eligible |-> FALSE]])

ListRequest ==
    /\ listRun.pc = "idle"
    /\ \E account \in {None, Some("addr")}, format \in BOOLEAN,
          category \in {None, Some("wins")}, all \in Listings,
          achConcurrency \in AchConcurrency :
           LET r    == GET(account, format, category, all)
               conc == max(1, achConcurrency)
           IN  IF r.pc = "await"
               THEN /\ pool' = promisePool(r.list, conc)
                    /\ listRun' = started(r, {}, pool'.running)
               ELSE /\ listRun' = r
                    /\ pool' = pool
    /\ UNCHANGED <<pollVars, debugRun, claimRun, metricRun, publishRun>>

\* The hasAchievement of the worker for item idx settles, under withRetry.
ListOwned(idx, has) ==
    /\ pool.pc # "idle"
    /\ idx \in pool.running
    /\ pool.items[idx].appId # None
    /\ listRun.owned[idx] = None
    /\ listRun' = [listRun EXCEPT !.owned[idx] = Some(lookedUp(has)),
                                  !.ownMemo = memoSet(@, pool.items[idx], has)]
    /\ UNCHANGED <<pollVars, debugRun, claimRun, pool, metricRun, publishRun>>

\* The worker of list mode for item idx returns: its checkOwned has
\* returned, and now its runRequirement.
ListWorker(idx, check) ==
    /\ pool.pc # "idle"
    /\ idx \in pool.running
    /\ listRun.owned[idx] # None
    /\ pool' = then(pool, idx, [owned |-> listRun.owned[idx][1],
                                eligible |-> runRequirement(check)])
    /\ listRun' = started(listRun, pool.running, pool'.running)
    /\ UNCHANGED <<pollVars, debugRun, claimRun, metricRun, publishRun>>

\* The worker for item idx rejects: getContractAppId threw in its
\* checkOwned.
ListWorkerRejects(idx) ==
    /\ pool.items[idx].appId = None
    /\ WorkerRejects(idx)

\* promisePool resolved: the handler goes on to the response.
ListRespond ==
    /\ listRun.pc = "await"
    /\ pool.pc = "resolved"
    /\ listRun' = respond(listRun, [k \in 1..Len(pool.out) |-> pool.out[k][1]])
    /\ UNCHANGED <<pollVars, debugRun, claimRun, pool, metricRun, publishRun>>

\* promisePool rejected: the handler throws.
ListThrows ==
    /\ listRun.pc = "await"
    /\ pool.pc = "rejected"
    /\ listRun' = [listRun EXCEPT !.pc = "done", !.status = 500]
    /\ UNCHANGED <<pollVars, debugRun, claimRun, pool, metricRun, publishRun>>

\* The steps of the workers, and those of the handler.
ListWorkerStep ==
    \/ \E idx \in 1..Cardinality(AchIds), has \in Checks : ListOwned(idx, has)
    \/ \E idx \in 1..Cardinality(AchIds), check \in Requirements : ListWorker(idx, check)
    \/ \E idx \in 1..Cardinality(AchIds) :
           /\ pool.pc # "idle" /\ idx \in pool.running
           /\ ListWorkerRejects(idx)

NextList == ListRequest \/ ListWorkerStep \/ ListRespond \/ ListThrows

SpecList == Init /\ [][NextList]_vars

SpecListFair ==
    /\ SpecList
    /\ WF_vars(ListWorkerStep) /\ WF_vars(ListRespond) /\ WF_vars(ListThrows)

(***************************************************************************)
(* GET /api/achievements: vocabulary of the claims                         *)
(***************************************************************************)
Returned == {listRun.body[k].id : k \in 1..Len(listRun.body)}
Matches(a) == listRun.category = None \/ a.category = listRun.category[1]

\* The request has an account and the ownership check found it to own a.
FoundOwned(a) ==
    /\ listRun.account # None
    /\ \E k \in 1..Len(listRun.list) :
           listRun.list[k].id = a.id /\ listRun.results[k].owned

\* C23: a list response holds a hidden achievement exactly when the request
\* has an account that the ownership check found to own it, so none without
\* an account; it holds every enabled achievement that is not hidden and
\* matches the filters, and never a disabled one.
C23_HiddenOnlyWhenOwned ==
    listRun.pc = "done" /\ listRun.status = 200
    => \A k \in 1..Len(listRun.all) :
           LET a == listRun.all[k]
           IN  /\ ~a.enabled => a.id \notin Returned
               /\ a.enabled /\ ~a.hidden /\ Matches(a) => a.id \in Returned
               /\ a.enabled /\ a.hidden /\ Matches(a)
                  => (a.id \in Returned <=> FoundOwned(a))
               /\ a.hidden /\ listRun.account = None => a.id \notin Returned

C23_Witness ==
    /\ listRun.pc = "done" /\ listRun.status = 200
    /\ listRun.account # None
    /\ Len(listRun.list) = 2
    /\ listRun.list[1].hidden /\ listRun.list[2].hidden
    /\ ~listRun.results[1].owned /\ listRun.results[2].owned
    /\ Returned = {listRun.list[2].id}

\* C29: a list request with an account always completes: once the handler
\* waits for promisePool it answers, whatever list the filters selected.
C29_ListWithAccountCompletes ==
    (listRun.pc = "await") ~> (listRun.pc = "done")

(***************************************************************************)
(* Poll cycles one at a time, no step failing, with the default cap, and   *)
(* an operator who sets the cursor through the cursor route between two    *)
(* cycles: the cursor read need not be the position of an event.           *)
(***************************************************************************)
NextSeek ==
    \/ \E e \in HoVEvent : FeedAppend(e)
    \/ \E p \in Procs : Serial(p) /\ Start(p, DefaultMaxPostsPerRun, FALSE, ValidEnv)
    \/ \E p \in Procs : GetCursor(p, TRUE)
    \/ \E p \in Procs, dryRun \in BOOLEAN, perMessage \in BatchChoices :
           FetchPage(p, TRUE, dryRun, perMessage)
    \/ \E p \in Procs : \E body \in BodiesOf("ok") : SendChunk(p, "ok", body)
    \/ \E p \in Procs : Advance(p, TRUE)
    \/ \E p \in Procs : Return(p) /\ UNCHANGED lastFail
    \/ \E round \in PostedRounds, intra \in PostedIntras :
           BetweenCycles /\ SetCursorPOST(round, intra)

SpecSeek == Init /\ [][NextSeek]_vars

(***************************************************************************)
(* Poll cycles one at a time, no step failing, in the default              *)
(* configuration, and the cursor routes called at any moment, between two  *)
(* steps of a cycle too, with any body.                                    *)
(***************************************************************************)
NextCursor ==
    \/ \E e \in HoVEvent : FeedAppend(e)
    \/ \E p \in Procs : Start(p, DefaultMaxPostsPerRun, FALSE, ValidEnv)
    \/ \E p \in Procs : GetCursor(p, TRUE)
    \/ \E p \in Procs : FetchPage(p, TRUE, FALSE, Whole(DefaultLinesPerMessage))
    \/ \E p \in Procs : SendChunk(p, "ok", NotJson)
    \/ \E p \in Procs : Advance(p, TRUE)
    \/ \E p \in Procs : Return(p) /\ UNCHANGED lastFail
    \/ \E round \in AnyRounds, intra \in AnyIntras : SetCursorPOST(round, intra)
    \/ DebugRedis

SpecCursor == Init /\ [][NextCursor]_vars

\* The highest of a non-empty set of positions.
MaxPosition(S) == CHOOSE a \in S : \A b \in S : AtOrAfter(a, b)
ReturnedMax(c) == [round |-> c.maxRound, intra |-> c.maxIntra]

\* C24 as stated: the (maxRound, maxIntra) of a fetch is the highest of the
\* cursor read (round, intra) and the fetched positions, so it is never
\* below the cursor read and is the cursor read when nothing was fetched.
C24_MaxSeededFromCursor ==
    \A p \in Procs :
        LET c == cyc[p]
        IN  Fetched(c)
            => /\ ReturnedMax(c) = MaxPosition({CursorRead(c)} \cup Elems(c.events))
               /\ AtOrAfter(ReturnedMax(c), CursorRead(c))

\* C24: the (maxRound, maxIntra) of a fetch is the highest of (round, 0),
\* round being the round of the cursor read, and the fetched positions: it
\* is (round, 0) when nothing was fetched, and its round is never below
\* the round of the cursor read.
C24_MaxSeededFromRoundAndZero ==
    \A p \in Procs :
        LET c == cyc[p]
        IN  Fetched(c)
            => /\ ReturnedMax(c) = MaxPosition({[round |-> c.lastRound, intra |-> 0]}
                                              \cup Elems(c.events))
               /\ c.events = <<>> => ReturnedMax(c) = [round |-> c.lastRound, intra |-> 0]
               /\ c.maxRound >= c.lastRound

C24_Witness ==
    \E p \in Procs :
        LET c == cyc[p]
        IN  /\ Fetched(c)
            /\ c.events = <<>>
            /\ c.lastRound = 101 /\ c.lastIntra = 1
            /\ c.maxRound = 101 /\ c.maxIntra = 0

(***************************************************************************)
(* The metric of the events of a poll cycle: the threshold sent upstream   *)
(* (lib/state/cursor.ts, fetchEventsPage) and the value a line reports     *)
(* (app/api/claim/route.ts, step 6). The upstream honours the parameters   *)
(* it is sent; every row is a win (it paid more than was bet) after the    *)
(* cursor.                                                                 *)
(***************************************************************************)
MaxRows == 2
Amounts == 0..2
MetricKeys == {"payout", "net_result"}

\* The rows of the upstream: net_result = payout - total_bet_amount.
MetricRows ==
    {[payout |-> w[1], total_bet_amount |-> w[2], net_result |-> w[1] - w[2]] :
        w \in {v \in Amounts \X Amounts : v[2] < v[1]}}

\* The query of fetchEventsPage: payoutGte is sent when it is truthy.
payoutGteParam(payoutGte) == IF payoutGte # 0 THEN Some(payoutGte) ELSE None

\* The upstream's answer to the query.
payoutFiltered(rows, param) ==
    IF param = None THEN rows
    ELSE SelectSeq(rows, LAMBDA e : e.payout >= param[1])

\* const raw: number = e[metricKey].
raw(e, metricKey) == IF metricKey = "payout" THEN e.payout ELSE e.net_result

\* Steps 3 to 5: the fetch with thresholdRaw as payoutGte.
MetricFetch ==
    /\ metricRun.pc = "idle"
    /\ \E metricKey \in MetricKeys, thresholdRaw \in Amounts, n \in 0..MaxRows :
           \E rows \in [1..n -> MetricRows] :
               metricRun' = [pc |-> "lines", metricKey |-> metricKey,
                             thresholdRaw |-> thresholdRaw, rows |-> rows,
                             toPost |-> payoutFiltered(rows, payoutGteParam(thresholdRaw)),
                             posted |-> <<>>]
    /\ UNCHANGED <<pollVars, debugRun, claimRun, pool, listRun, publishRun>>

\* Steps 6 and 7: one line per event of toPost, reporting its metric.
MetricPost ==
    /\ metricRun.pc = "lines"
    /\ metricRun' = [metricRun EXCEPT
           !.pc = "done",
           !.posted = [k \in 1..Len(metricRun.toPost) |->
                          [event |-> metricRun.toPost[k],
                           raw |-> raw(metricRun.toPost[k], metricRun.metricKey)]]]
    /\ UNCHANGED <<pollVars, debugRun, claimRun, pool, listRun, publishRun>>

NextMetric == MetricFetch \/ MetricPost

SpecMetric == Init /\ [][NextMetric]_vars

\* C25: every posted event is a big win by the configured metric: the raw
\* value of the metric selected by metricKey is at least thresholdRaw.
C25_PostedMeetThreshold ==
    metricRun.pc = "done"
    => \A k \in 1..Len(metricRun.posted) :
           metricRun.posted[k].raw >= metricRun.thresholdRaw

(***************************************************************************)
(* lib/discord/webhook.ts: postDiscordLines and postDiscordMessage, seen   *)
(* through the length of the lines. A line is known by its index and its  *)
(* length in characters, a message by the characters it keeps of each line *)
(* of its chunk. The sink accepts every POST.                              *)
(***************************************************************************)
MaxLines == 3
LineLengths == {1, 950, MaxContent}

\* chunk.join("\n"): the lines of the chunk, each from the character after
\* the newline that ends the one before.
joined(lines, i, chunkSize) ==
    [k \in 1..Len(chunkAt(lines, i, chunkSize)) |->
        [line |-> trunc(i) + k, len |-> lines[trunc(i) + k]]]

\* postDiscordLines(webhookUrl, lines, perMessage) to its loop.
postDiscordLines(lines, perMessage) ==
    [pc |-> IF Len(lines) = 0 THEN "done" ELSE "loop",
     lines |-> lines, perMessage |-> perMessage, chunkSize |-> max(Whole(1), perMessage),
     i |-> 0, messages |-> <<>>, sleeps |-> <<>>]

PublishCall ==
    /\ publishRun.pc = "idle"
    /\ \E n \in 0..MaxLines, perMessage \in BatchChoices :
           \E lines \in [1..n -> LineLengths] :
               publishRun' = postDiscordLines(lines, perMessage)
    /\ UNCHANGED <<pollVars, debugRun, claimRun, pool, listRun, metricRun>>

\* One turn of the loop: the message of the chunk at i is posted and
\* accepted, then the pause.
PublishChunk ==
    /\ publishRun.pc = "loop"
    /\ LET r == publishRun
           i == plus(r.i, r.chunkSize)
       IN  publishRun' =
               [r EXCEPT !.messages = Append(r.messages, safe(joined(r.lines, r.i, r.chunkSize))),
                         !.sleeps = Append(r.sleeps, 250),
                         !.i = i,
                         !.pc = IF lt(i, Whole(Len(r.lines))) THEN "loop" ELSE "done"]
    /\ UNCHANGED <<pollVars, debugRun, claimRun, pool, listRun, metricRun>>

NextPublish == PublishCall \/ PublishChunk

SpecPublish == Init /\ [][NextPublish]_vars

\* The pieces of the messages, in send order.
RECURSIVE Pieces(_)
Pieces(messages) ==
    IF messages = <<>> THEN <<>> ELSE Head(messages).pieces \o Pieces(Tail(messages))

\* C26: a publish call that succeeds for n >= 1 lines with a whole number b
\* as batch size has ceil(n / max(1, b)) messages accepted, each of 1 to
\* max(1, b) consecutive lines, and the messages in send order hold every
\* line in full, once and in input order; with no line no POST is made.
C26_EveryLineInFullOnce ==
    publishRun.pc = "done" /\ publishRun.perMessage # NaN /\ publishRun.perMessage % 2 = 0
    => LET r == publishRun
           n == Len(r.lines)
           b == trunc(r.chunkSize)
           all == Pieces(r.messages)
       IN  /\ Len(r.messages) = CeilDiv(n, b)
           /\ \A m \in 1..Len(r.messages) :
                  /\ Len(r.messages[m].pieces) \in 1..b
                  /\ \A k \in 1..(Len(r.messages[m].pieces) - 1) :
                         r.messages[m].pieces[k + 1].line = r.messages[m].pieces[k].line + 1
           /\ Len(all) = n
           /\ \A k \in 1..n : all[k].line = k /\ all[k].kept = r.lines[k]

\* The pages of fetchAllEventsSince so far were asked at offsets 0, 100, ...
\* and the loop goes on exactly after a page of 100 rows below hardLimit.
PagedByHundred ==
    /\ fetchRun.pc = "loop" => fetchRun.offset = pageSize * fetchRun.requests
    /\ fetchRun.requests > 0
       => (fetchRun.pc = "loop"
              <=> fetchRun.lastLen = pageSize /\ fetchRun.len < fetchRun.hardLimit)

\* C27: fetchAllEventsSince asks for its pages at offsets 0, 100,
\* 200, ..., never the same twice, asks for a further page exactly when the
\* page before held the 100 rows asked for and fewer than hardLimit events
\* are held, and returns all rows of its pages.
C27_PagesAtMultiplesOfHundred ==
    /\ PagedByHundred
    /\ fetchRun.len = fetchRun.rows

\* C28: when two poll cycles overlap, no cursor write puts a position below
\* the one stored: over every interleaving of the cycles' steps against a
\* growing feed the stored (round, intra) never decreases.
C28_OverlapNeverLowersCursor ==
    [][\A p \in Invocations :
           cyc[p].pc = "advance" /\ cyc'[p].pc = "done"
           => AtOrAfter(getCursor(kv'), getCursor(kv))]_vars
====
